---- MODULE Spec2Model ----
(***************************************************************************)
(* NetLedger Python SDK (netledger_sdk): the typed request/response        *)
(* pipeline, the operation groups and the enumeration / pagination         *)
(* contract, modelled as a state machine.  One action is one blocking      *)
(* call of a client operation, from argument validation to the decoded     *)
(* result or the raised error.                                             *)
(***************************************************************************)
EXTENDS Integers, Sequences, FiniteSets, TLC

\* ------------------------------------------------------------------ bounds
MaxAmount == 2      \* amounts range over -1 .. MaxAmount
MaxBatch == 2       \* longest list given to add_credits / add_debits
MaxNameLen == 2     \* longest name, in characters

\* ------------------------------------------------------- python-ish values
\* Optional[x]: None is the empty sequence, a value v is <<v>>.
None == <<>>
Some(v) == <<v>>
IsNone(x) == x = <<>>

\* Truthiness of an Optional[str] (`if description:`).
TruthyStr(x) == x # None /\ x[1] # ""

\* Characters of the names the caller passes.
Whitespace == {" ", "\t"}
Chars == Whitespace \cup {"a"}
RECURSIVE SeqsUpTo(_, _)
SeqsUpTo(S, n) ==
  IF n = 0 THEN {<<>>}
  ELSE LET prev == SeqsUpTo(S, n - 1)
       IN prev \cup {Append(s, c) : s \in {p \in prev : Len(p) = n - 1}, c \in S}

\* str.strip(): drop leading and trailing whitespace.
RECURSIVE LStrip(_)
LStrip(s) == IF s # <<>> /\ Head(s) \in Whitespace THEN LStrip(Tail(s)) ELSE s
RECURSIVE RStrip(_)
RStrip(s) ==
  IF s # <<>> /\ s[Len(s)] \in Whitespace THEN RStrip(SubSeq(s, 1, Len(s) - 1)) ELSE s
Strip(s) == RStrip(LStrip(s))

\* --------------------------------------------------------------- JSON values
\* A parsed JSON value is tagged by its Python type; Python None is JSON null.
PyNone == [t |-> "null"]
JObject(o) == [t |-> "object", o |-> o]
JArray(a) == [t |-> "array", a |-> a]
JString(s) == [t |-> "string", s |-> s]
JNumber(n) == [t |-> "number", n |-> n]

\* dict.get(key, default)
Get(o, k, d) == IF k \in DOMAIN o THEN o[k] ELSE d

\* `not x` for a decoded JSON value
Falsy(j) ==
  \/ j.t = "null"
  \/ j.t = "object" /\ DOMAIN j.o = {}
  \/ j.t = "array" /\ j.a = <<>>
  \/ j.t = "string" /\ j.s = ""
  \/ j.t = "number" /\ j.n = 0

\* Response text: empty, whitespace only, text that is not JSON, or JSON.
EmptyText == [kind |-> "empty"]
BlankText == [kind |-> "blank"]
GarbageText == [kind |-> "text"]
JsonText(j) == [kind |-> "json", json |-> j]

\* ---------------------------------------------------------------- exceptions
NetLedgerConnectionError(message, cause) ==
  [kind |-> "ConnectionError", message |-> message, cause |-> cause]
NetLedgerApiError(status_code, message, details) ==
  [kind |-> "ApiError", status_code |-> status_code, message |-> message, details |-> details]
NetLedgerValidationError(message, parameter_name) ==
  [kind |-> "ValidationError", message |-> message, parameter_name |-> parameter_name]
ValueError(message) == [kind |-> "ValueError", message |-> message]
AttributeError == [kind |-> "AttributeError"]
Return(v) == [kind |-> "return", value |-> v]

\* ----------------------------------------------------------------- transport
ApiResponse(data, status_code, request_guid) ==
  [kind |-> "ok", data |-> data, status_code |-> status_code, request_guid |-> request_guid]

\* What the network does with one request.
NetTimeout == [kind |-> "timeout"]
NetFailure == [kind |-> "connfail"]
NetResponse(status, reason, text, request_guid) ==
  [kind |-> "response", status |-> status, reason |-> reason, text |-> text,
   request_guid |-> request_guid]

HttpRequest(method, path, body) == [method |-> method, path |-> path, body |-> body]

Is2xx(status) == 200 <= status /\ status < 300

\* HttpClient._request, lines 80-91: the error raised for a non-2xx response.
ErrorResponse(net) ==
  LET reason == IF net.reason # "" THEN net.reason ELSE "Unknown error"
  IN  IF net.text.kind # "json"
        THEN NetLedgerApiError(net.status, reason, None)
      ELSE IF net.text.json.t = "object"
        THEN NetLedgerApiError(net.status,
                               Get(net.text.json.o, "message", reason),
                               IF "description" \in DOMAIN net.text.json.o
                                 THEN Some(net.text.json.o.description) ELSE None)
      ELSE AttributeError

\* HttpClient._request, lines 93-107: the envelope built for a 2xx response.
SuccessResponse(net) ==
  IF net.text.kind \in {"empty", "blank"}
    THEN ApiResponse(PyNone, net.status, net.request_guid)
  ELSE IF net.text.kind = "json"
    THEN ApiResponse(net.text.json, net.status, net.request_guid)
  ELSE NetLedgerApiError(net.status, "Failed to parse response", None)

\* Variant of Request: a timed-out request is sent again before giving up.
Request_RetryOnTimeout(method, path, body, net) ==
  [sent |-> IF net.kind = "timeout"
              THEN <<HttpRequest(method, path, body), HttpRequest(method, path, body)>>
            ELSE <<HttpRequest(method, path, body)>>,
   res  |-> IF net.kind = "timeout"
              THEN NetLedgerConnectionError("Request timed out", None)
            ELSE IF net.kind = "connfail"
              THEN NetLedgerConnectionError("Failed to connect to the server", Some("cause"))
            ELSE IF ~Is2xx(net.status) THEN ErrorResponse(net)
            ELSE SuccessResponse(net)]

\* HttpClient._request: the requests issued and the envelope or error.
Request(method, path, body, net) ==
  [sent |-> <<HttpRequest(method, path, body)>>,
   res  |-> IF net.kind = "timeout"
              THEN NetLedgerConnectionError("Request timed out", None)
            ELSE IF net.kind = "connfail"
              THEN NetLedgerConnectionError("Failed to connect to the server", Some("cause"))
            ELSE IF ~Is2xx(net.status) THEN ErrorResponse(net)
            ELSE SuccessResponse(net)]

HttpGet(path, net) == Request("GET", path, None, net)
HttpPut(path, body, net) == Request("PUT", path, body, net)
HttpPost(path, body, net) == Request("POST", path, body, net)
\* HttpClient.delete discards the envelope.
HttpDelete(path, net) ==
  LET r == Request("DELETE", path, None, net)
  IN  [sent |-> r.sent, res |-> IF r.res.kind = "ok" THEN [kind |-> "ok"] ELSE r.res]
\* Variant of HttpHead: a timeout counts as a failed existence check.
HttpHead_TimeoutIsFalse(path, net) ==
  [sent |-> <<HttpRequest("HEAD", path, None)>>,
   res  |-> IF net.kind = "timeout"
              THEN [kind |-> "ok", value |-> FALSE]
            ELSE IF net.kind = "connfail"
              THEN NetLedgerConnectionError("Failed to connect to the server", Some("cause"))
            ELSE [kind |-> "ok", value |-> Is2xx(net.status)]]

\* HttpClient.head: status only.
HttpHead(path, net) ==
  [sent |-> <<HttpRequest("HEAD", path, None)>>,
   res  |-> IF net.kind = "timeout"
              THEN NetLedgerConnectionError("Request timed out", None)
            ELSE IF net.kind = "connfail"
              THEN NetLedgerConnectionError("Failed to connect to the server", Some("cause"))
            ELSE [kind |-> "ok", value |-> Is2xx(net.status)]]

\* An operation's outcome: the requests it issued, what the transport call gave
\* back to the operation, and what the caller gets.
NoReply == [kind |-> "none"]
Outcome(r, out) == [sent |-> r.sent, res |-> r.res, out |-> out]
NoRequest(out) == [sent |-> <<>>, res |-> NoReply, out |-> out]

\* -------------------------------------------------------------------- models
\* dict.get(key) with the None default, for a field whose value is stored bare.
GetOpt(o, k) == IF k \in DOMAIN o THEN Some(o[k]) ELSE None

\* A record with no field (the empty dict).
EmptyDict == <<>>
\* dict with an optional key: `if cond: result[key] = value`.
With(cond, rec) == IF cond THEN rec ELSE EmptyDict

\* A decode either yields a value or raises.
Decoded(v) == [ok |-> TRUE, v |-> v]
Raised(e) == [ok |-> FALSE, err |-> e]
\* The decoded value as an optional field's value; a raise propagates.
SomeOf(d) == IF d.ok THEN Decoded(Some(d.v)) ELSE d
\* `return <decoded>`: the value is returned; a raise propagates.
ReturnOf(d) == IF d.ok THEN Return(d.v) ELSE d.err

\* EntryType / EnumerationOrder (IntEnum)
CREDIT == 0
DEBIT == 1
BALANCE == 2
EntryTypeValues == {CREDIT, DEBIT, BALANCE}
CREATED_ASCENDING == 0
CREATED_DESCENDING == 1
AMOUNT_ASCENDING == 2
AMOUNT_DESCENDING == 3
EnumerationOrder == {CREATED_ASCENDING, CREATED_DESCENDING, AMOUNT_ASCENDING, AMOUNT_DESCENDING}

\* Account.from_dict
AccountFromDict(data) ==
  IF data.t # "object" THEN Raised(AttributeError)
  ELSE Decoded([guid |-> Get(data.o, "GUID", ""),
                name |-> Get(data.o, "Name", <<>>),
                notes |-> GetOpt(data.o, "Notes"),
                created_utc |-> GetOpt(data.o, "CreatedUtc")])

\* Variant of EntryTypeFromWire: a name outside the three literals is rejected
\* like a number outside the enumeration.
EntryTypeFromWire_StrictNames(raw) ==
  IF raw.t = "string" /\ raw.s \in {"Credit", "Debit", "Balance"}
    THEN Decoded(IF raw.s = "Credit" THEN CREDIT
                 ELSE IF raw.s = "Debit" THEN DEBIT
                 ELSE BALANCE)
  ELSE IF raw.t = "number" /\ raw.n \in EntryTypeValues THEN Decoded(raw.n)
  ELSE Raised(ValueError("not a valid EntryType"))

\* Variant of EntryTypeFromWire: a number that is no type code is taken as a
\* credit, as an unknown name is.
EntryTypeFromWire_DefaultsNumber(raw) ==
  IF raw.t = "string"
    THEN Decoded(IF raw.s = "Credit" THEN CREDIT
                 ELSE IF raw.s = "Debit" THEN DEBIT
                 ELSE IF raw.s = "Balance" THEN BALANCE
                 ELSE CREDIT)
  ELSE IF raw.t = "number" /\ raw.n \in EntryTypeValues THEN Decoded(raw.n)
  ELSE Decoded(CREDIT)

\* Entry.from_dict: the Type field is a number or a name.
EntryTypeFromWire(raw) ==
  IF raw.t = "string"
    THEN Decoded(IF raw.s = "Credit" THEN CREDIT
                 ELSE IF raw.s = "Debit" THEN DEBIT
                 ELSE IF raw.s = "Balance" THEN BALANCE
                 ELSE CREDIT)
  ELSE IF raw.t = "number" /\ raw.n \in EntryTypeValues THEN Decoded(raw.n)
  ELSE Raised(ValueError("not a valid EntryType"))

EntryFromDict(data) ==
  IF data.t # "object" THEN Raised(AttributeError)
  ELSE LET ty == EntryTypeFromWire(Get(data.o, "Type", JNumber(0)))
       IN  IF ~ty.ok THEN ty
           ELSE Decoded([guid |-> Get(data.o, "GUID", ""),
                         account_guid |-> Get(data.o, "AccountGUID", ""),
                         type |-> ty.v,
                         amount |-> Get(data.o, "Amount", 0),
                         description |-> GetOpt(data.o, "Description"),
                         is_committed |-> Get(data.o, "IsCommitted", FALSE),
                         created_utc |-> GetOpt(data.o, "CreatedUtc")])

\* ApiKeyInfo.from_dict
ApiKeyInfoFromDict(data) ==
  IF data.t # "object" THEN Raised(AttributeError)
  ELSE Decoded([guid |-> Get(data.o, "GUID", ""),
                name |-> Get(data.o, "Name", <<>>),
                api_key |-> GetOpt(data.o, "Key"),
                active |-> Get(data.o, "Active", TRUE),
                is_admin |-> Get(data.o, "IsAdmin", FALSE),
                created_utc |-> GetOpt(data.o, "CreatedUtc")])

\* [Entry.from_dict(e) for e in objs]: the entries in order; the first
\* failure aborts the whole list.
DecodeEntries(objs) ==
  LET failed == {i \in 1..Len(objs) : ~EntryFromDict(objs[i]).ok}
  IN  IF failed = {}
        THEN Decoded([i \in 1..Len(objs) |-> EntryFromDict(objs[i]).v])
      ELSE EntryFromDict(objs[CHOOSE i \in failed : \A j \in failed : i <= j])

\* `cls(count=..., total=..., entries=entries)`, given the decode of the entries.
PendingTransactionSummary(o, entries) ==
  IF ~entries.ok THEN entries
  ELSE Decoded([count |-> Get(o, "Count", 0),
                total |-> Get(o, "Total", 0),
                entries |-> entries.v])

\* PendingTransactionSummary.from_dict
PendingTransactionSummaryFromDict(data) ==
  IF data.t # "object" THEN Raised(AttributeError)
  ELSE PendingTransactionSummary(data.o,
         IF Falsy(Get(data.o, "Entries", PyNone)) THEN Decoded(None)
         ELSE SomeOf(DecodeEntries(data.o.Entries.a)))

\* `if data.get(key): summary = PendingTransactionSummary.from_dict(data[key])`
OptionalSummary(o, k) ==
  IF Falsy(Get(o, k, PyNone)) THEN Decoded(None)
  ELSE SomeOf(PendingTransactionSummaryFromDict(o[k]))

\* `cls(account_guid=..., pending_credits=..., pending_debits=...)`, given the
\* decodes of the two summaries (credits are decoded first).
Balance(o, pending_credits, pending_debits) ==
  IF ~pending_credits.ok THEN pending_credits
  ELSE IF ~pending_debits.ok THEN pending_debits
  ELSE Decoded([account_guid |-> Get(o, "AccountGUID", ""),
                committed_balance |-> Get(o, "CommittedBalance", 0),
                pending_balance |-> Get(o, "PendingBalance", 0),
                pending_credits |-> pending_credits.v,
                pending_debits |-> pending_debits.v])

\* Balance.from_dict
BalanceFromDict(data) ==
  IF data.t # "object" THEN Raised(AttributeError)
  ELSE Balance(data.o, OptionalSummary(data.o, "PendingCredits"),
               OptionalSummary(data.o, "PendingDebits"))

\* `a or b` on wire values, where PyNone stands for Python's None (an absent
\* key or a JSON null): a None, empty or zero `a` yields `b`.
PyOr(a, b) == IF ~Falsy(a) THEN a ELSE b

\* ServiceInfo.from_dict
ServiceInfoFromDict(data) ==
  IF data.t # "object" THEN Raised(AttributeError)
  ELSE Decoded(
    [name |-> PyOr(Get(data.o, "Name", PyNone), Get(data.o, "name", JString(""))),
     version |-> PyOr(Get(data.o, "Version", PyNone), Get(data.o, "version", JString(""))),
     start_time_utc |-> PyOr(Get(data.o, "StartTimeUtc", PyNone),
                             Get(data.o, "startTimeUtc", PyNone)),
     uptime_seconds |-> PyOr(Get(data.o, "UptimeSeconds", PyNone),
                             Get(data.o, "uptimeSeconds", JNumber(0))),
     uptime_formatted |-> PyOr(Get(data.o, "UptimeFormatted", PyNone),
                               Get(data.o, "uptimeFormatted", JString("")))])

\* The from_dict of a model class, passed as `object_factory`.
FromDict(cls, data) ==
  CASE cls = "Account" -> AccountFromDict(data)
    [] cls = "Entry" -> EntryFromDict(data)
    [] cls = "ApiKeyInfo" -> ApiKeyInfoFromDict(data)
    [] cls = "Balance" -> BalanceFromDict(data)
    [] cls = "ServiceInfo" -> ServiceInfoFromDict(data)

\* [object_factory(o) for o in objs]: the elements in order; the first failure
\* aborts the whole list.
DecodeList(object_factory, objs) ==
  LET failed == {i \in 1..Len(objs) : ~FromDict(object_factory, objs[i]).ok}
  IN  IF failed = {}
        THEN Decoded([i \in 1..Len(objs) |-> FromDict(object_factory, objs[i]).v])
      ELSE FromDict(object_factory, objs[CHOOSE i \in failed : \A j \in failed : i <= j])

\* EnumerationResult() with the dataclass defaults.
EmptyEnumerationResult ==
  [total_records |-> 0, records_remaining |-> 0, end_of_results |-> TRUE,
   continuation_token |-> None, objects |-> None]

\* `cls(total_records=..., objects=objects)`, given the decode of the objects.
EnumerationResult(o, objects) ==
  IF ~objects.ok THEN objects
  ELSE Decoded([total_records |-> Get(o, "TotalRecords", 0),
                records_remaining |-> Get(o, "RecordsRemaining", 0),
                end_of_results |-> Get(o, "EndOfResults", TRUE),
                continuation_token |-> Get(o, "ContinuationToken", None),
                objects |-> objects.v])

\* EnumerationResult.from_dict(data, object_factory)
EnumerationResultFromDict(data, object_factory) ==
  IF data.t # "object" THEN Raised(AttributeError)
  ELSE EnumerationResult(data.o,
         IF Falsy(Get(data.o, "Objects", PyNone)) THEN Decoded(None)
         ELSE SomeOf(DecodeList(object_factory, data.o.Objects.a)))

\* EntryEnumerationQuery(...) and its to_dict
EntryEnumerationQuery(max_results, continuation_token, after, before, amin, amax, ordering) ==
  [max_results |-> max_results, continuation_token |-> continuation_token,
   created_after_utc |-> after, created_before_utc |-> before,
   amount_min |-> amin, amount_max |-> amax, ordering |-> ordering]

DefaultEntryEnumerationQuery ==
  EntryEnumerationQuery(100, None, None, None, None, None, CREATED_DESCENDING)

\* Variant of EntryEnumerationQueryToDict: the amount bounds are tested for
\* truthiness (`if self.amount_min:`), which drops a bound of 0.
EntryEnumerationQueryToDict_TruthyAmount(q) ==
  [MaxResults |-> q.max_results, Ordering |-> q.ordering]
  @@ With(TruthyStr(q.continuation_token), [ContinuationToken |-> q.continuation_token[1]])
  @@ With(TruthyStr(q.created_after_utc), [CreatedAfterUtc |-> q.created_after_utc[1]])
  @@ With(TruthyStr(q.created_before_utc), [CreatedBeforeUtc |-> q.created_before_utc[1]])
  @@ With(q.amount_min # None /\ q.amount_min # Some(0), [AmountMinimum |-> q.amount_min[1]])
  @@ With(q.amount_max # None /\ q.amount_max # Some(0), [AmountMaximum |-> q.amount_max[1]])

\* Variant of EntryEnumerationQueryToDict: the continuation token is never sent.
EntryEnumerationQueryToDict_NoToken(q) ==
  [MaxResults |-> q.max_results, Ordering |-> q.ordering]
  @@ With(TruthyStr(q.created_after_utc), [CreatedAfterUtc |-> q.created_after_utc[1]])
  @@ With(TruthyStr(q.created_before_utc), [CreatedBeforeUtc |-> q.created_before_utc[1]])
  @@ With(q.amount_min # None, [AmountMinimum |-> q.amount_min[1]])
  @@ With(q.amount_max # None, [AmountMaximum |-> q.amount_max[1]])

\* Variant of EntryEnumerationQueryToDict: the dataclass default ordering is
\* sent instead of the query's.
EntryEnumerationQueryToDict_DefaultOrdering(q) ==
  [MaxResults |-> q.max_results, Ordering |-> CREATED_DESCENDING]
  @@ With(TruthyStr(q.continuation_token), [ContinuationToken |-> q.continuation_token[1]])
  @@ With(TruthyStr(q.created_after_utc), [CreatedAfterUtc |-> q.created_after_utc[1]])
  @@ With(TruthyStr(q.created_before_utc), [CreatedBeforeUtc |-> q.created_before_utc[1]])
  @@ With(q.amount_min # None, [AmountMinimum |-> q.amount_min[1]])
  @@ With(q.amount_max # None, [AmountMaximum |-> q.amount_max[1]])

\* Variant of EntryEnumerationQueryToDict: the upper amount bound is never sent.
EntryEnumerationQueryToDict_NoAmountMaximum(q) ==
  [MaxResults |-> q.max_results, Ordering |-> q.ordering]
  @@ With(TruthyStr(q.continuation_token), [ContinuationToken |-> q.continuation_token[1]])
  @@ With(TruthyStr(q.created_after_utc), [CreatedAfterUtc |-> q.created_after_utc[1]])
  @@ With(TruthyStr(q.created_before_utc), [CreatedBeforeUtc |-> q.created_before_utc[1]])
  @@ With(q.amount_min # None, [AmountMinimum |-> q.amount_min[1]])

EntryEnumerationQueryToDict(q) ==
  [MaxResults |-> q.max_results, Ordering |-> q.ordering]
  @@ With(TruthyStr(q.continuation_token), [ContinuationToken |-> q.continuation_token[1]])
  @@ With(TruthyStr(q.created_after_utc), [CreatedAfterUtc |-> q.created_after_utc[1]])
  @@ With(TruthyStr(q.created_before_utc), [CreatedBeforeUtc |-> q.created_before_utc[1]])
  @@ With(q.amount_min # None, [AmountMinimum |-> q.amount_min[1]])
  @@ With(q.amount_max # None, [AmountMaximum |-> q.amount_max[1]])

\* AccountEnumerationQuery / ApiKeyEnumerationQuery
AccountEnumerationQuery(max_results, skip, search_term) ==
  [max_results |-> max_results, skip |-> skip, search_term |-> search_term]
ApiKeyEnumerationQuery(max_results, skip) == [max_results |-> max_results, skip |-> skip]

\* ------------------------------------------------------ operations: entries
\* Paths: the segments after the base URL and the query string parameters.
Path(segs) == [segs |-> segs, query |-> EmptyDict]
PathQ(segs, query) == [segs |-> segs, query |-> query]

\* `if not response.data: raise ValueError(...)`, then decode.
NoDataError == ValueError("No data returned from server")

\* Variant of AddSingleEntry: the amount check lets zero through (`amount < 0`).
AddSingleEntry_AcceptsZero(resource, account_guid, amount, description, net) ==
  IF amount < 0
    THEN NoRequest(NetLedgerValidationError("Amount must be greater than zero", "amount"))
  ELSE
    LET body == [Amount |-> amount] @@ With(TruthyStr(description), [Notes |-> description[1]])
        r == HttpPut(Path(<<"v1", "accounts", account_guid, resource>>), Some(body), net)
    IN  Outcome(r,
          IF r.res.kind # "ok" THEN r.res
          ELSE IF Falsy(r.res.data) THEN NoDataError
          ELSE IF r.res.data.t # "object" THEN AttributeError
          ELSE LET entry_guids == Get(r.res.data.o, "EntryGuids", JArray(<<>>))
               IN  IF Falsy(entry_guids)
                     THEN ValueError("No entry GUID returned from server")
                   ELSE Return(entry_guids.a[1]))

\* EntryMethods.add_credit / add_debit share their body; `resource` is the
\* last path segment ("credits" / "debits").
AddSingleEntry(resource, account_guid, amount, description, net) ==
  IF amount <= 0
    THEN NoRequest(NetLedgerValidationError("Amount must be greater than zero", "amount"))
  ELSE
    LET body == [Amount |-> amount] @@ With(TruthyStr(description), [Notes |-> description[1]])
        r == HttpPut(Path(<<"v1", "accounts", account_guid, resource>>), Some(body), net)
    IN  Outcome(r,
          IF r.res.kind # "ok" THEN r.res
          ELSE IF Falsy(r.res.data) THEN NoDataError
          ELSE IF r.res.data.t # "object" THEN AttributeError
          ELSE LET entry_guids == Get(r.res.data.o, "EntryGuids", JArray(<<>>))
               IN  IF Falsy(entry_guids)
                     THEN ValueError("No entry GUID returned from server")
                   ELSE Return(entry_guids.a[1]))

add_credit(account_guid, amount, description, net) ==
  AddSingleEntry("credits", account_guid, amount, description, net)
add_debit(account_guid, amount, description, net) ==
  AddSingleEntry("debits", account_guid, amount, description, net)

\* EntryMethods.add_credits / add_debits; entries is a list of EntryInput.
EntryInput(amount, description) == [amount |-> amount, description |-> description]

\* Variant of AddEntryBatch: only the first amount of the list is checked.
AddEntryBatch_FirstOnly(resource, account_guid, entries, net) ==
  IF entries = <<>>
    THEN NoRequest(NetLedgerValidationError("Entries list cannot be empty", "entries"))
  ELSE IF entries[1].amount <= 0
    THEN NoRequest(NetLedgerValidationError("All amounts must be greater than zero", "entries"))
  ELSE
    LET body == [Entries |-> [i \in 1..Len(entries) |->
                               [Amount |-> entries[i].amount, Notes |-> entries[i].description]]]
        r == HttpPut(Path(<<"v1", "accounts", account_guid, resource>>), Some(body), net)
    IN  Outcome(r,
          IF r.res.kind # "ok" THEN r.res
          ELSE IF Falsy(r.res.data) THEN Return(<<>>)
          ELSE IF r.res.data.t # "object" THEN AttributeError
          ELSE LET entry_guids == Get(r.res.data.o, "EntryGuids", JArray(<<>>))
               IN  IF entry_guids.t = "array" THEN Return(entry_guids.a) ELSE Return(None))

\* Variant of AddEntryBatch: an answer without data is an error, as it is for
\* a single entry.
AddEntryBatch_RaisesOnNoData(resource, account_guid, entries, net) ==
  IF entries = <<>>
    THEN NoRequest(NetLedgerValidationError("Entries list cannot be empty", "entries"))
  ELSE IF \E i \in 1..Len(entries) : entries[i].amount <= 0
    THEN NoRequest(NetLedgerValidationError("All amounts must be greater than zero", "entries"))
  ELSE
    LET body == [Entries |-> [i \in 1..Len(entries) |->
                               [Amount |-> entries[i].amount, Notes |-> entries[i].description]]]
        r == HttpPut(Path(<<"v1", "accounts", account_guid, resource>>), Some(body), net)
    IN  Outcome(r,
          IF r.res.kind # "ok" THEN r.res
          ELSE IF Falsy(r.res.data) THEN NoDataError
          ELSE IF r.res.data.t # "object" THEN AttributeError
          ELSE LET entry_guids == Get(r.res.data.o, "EntryGuids", JArray(<<>>))
               IN  IF entry_guids.t = "array" THEN Return(entry_guids.a) ELSE Return(None))

AddEntryBatch(resource, account_guid, entries, net) ==
  IF entries = <<>>
    THEN NoRequest(NetLedgerValidationError("Entries list cannot be empty", "entries"))
  ELSE IF \E i \in 1..Len(entries) : entries[i].amount <= 0
    THEN NoRequest(NetLedgerValidationError("All amounts must be greater than zero", "entries"))
  ELSE
    LET body == [Entries |-> [i \in 1..Len(entries) |->
                               [Amount |-> entries[i].amount, Notes |-> entries[i].description]]]
        r == HttpPut(Path(<<"v1", "accounts", account_guid, resource>>), Some(body), net)
    IN  Outcome(r,
          IF r.res.kind # "ok" THEN r.res
          ELSE IF Falsy(r.res.data) THEN Return(<<>>)
          ELSE IF r.res.data.t # "object" THEN AttributeError
          ELSE LET entry_guids == Get(r.res.data.o, "EntryGuids", JArray(<<>>))
               IN  IF entry_guids.t = "array" THEN Return(entry_guids.a) ELSE Return(None))

add_credits(account_guid, entries, net) == AddEntryBatch("credits", account_guid, entries, net)
add_debits(account_guid, entries, net) == AddEntryBatch("debits", account_guid, entries, net)

\* The error of iterating a value that is not a list of dicts.
IterationError(j) == IF j.t \in {"object", "string"} THEN AttributeError
                     ELSE [kind |-> "TypeError"]

\* EntryMethods.get_all
entry_get_all(account_guid, net) ==
  LET r == HttpGet(Path(<<"v1", "accounts", account_guid, "entries">>), net)
  IN  Outcome(r,
        IF r.res.kind # "ok" THEN r.res
        ELSE IF Falsy(r.res.data) THEN Return(<<>>)
        ELSE IF r.res.data.t # "object" THEN AttributeError
        ELSE LET objects == Get(r.res.data.o, "Objects", JArray(<<>>))
             IN  IF objects.t # "array" THEN IterationError(objects)
                 ELSE ReturnOf(DecodeEntries(objects.a)))

\* EntryMethods.enumerate
entry_enumerate(account_guid, query, net) ==
  LET q == IF query = None THEN DefaultEntryEnumerationQuery ELSE query[1]
      r == HttpPost(Path(<<"v1", "accounts", account_guid, "entries", "enumerate">>),
                    Some(EntryEnumerationQueryToDict(q)), net)
  IN  Outcome(r,
        IF r.res.kind # "ok" THEN r.res
        ELSE IF Falsy(r.res.data) THEN Return(EmptyEnumerationResult)
        ELSE ReturnOf(EnumerationResultFromDict(r.res.data, "Entry")))

\* EntryMethods.get_pending / get_pending_credits / get_pending_debits
GetPendingAt(segs, net) ==
  LET r == HttpGet(Path(segs), net)
  IN  Outcome(r,
        IF r.res.kind # "ok" THEN r.res
        ELSE IF Falsy(r.res.data) THEN Return(<<>>)
        ELSE IF r.res.data.t # "array" THEN IterationError(r.res.data)
        ELSE ReturnOf(DecodeEntries(r.res.data.a)))

get_pending(account_guid, net) ==
  GetPendingAt(<<"v1", "accounts", account_guid, "entries", "pending">>, net)
get_pending_credits(account_guid, net) ==
  GetPendingAt(<<"v1", "accounts", account_guid, "entries", "pending", "credits">>, net)
\* Variant of get_pending_debits: the request goes to the credits' path.
get_pending_debits_CreditsPath(account_guid, net) ==
  GetPendingAt(<<"v1", "accounts", account_guid, "entries", "pending", "credits">>, net)
get_pending_debits(account_guid, net) ==
  GetPendingAt(<<"v1", "accounts", account_guid, "entries", "pending", "debits">>, net)

\* A DELETE whose answer carries nothing for the caller.
DeleteAt(segs, net) ==
  LET r == HttpDelete(Path(segs), net)
  IN  Outcome(r, IF r.res.kind = "ok" THEN Return(None) ELSE r.res)

\* EntryMethods.cancel
entry_cancel(account_guid, entry_guid, net) ==
  DeleteAt(<<"v1", "accounts", account_guid, "entries", entry_guid>>, net)

\* ----------------------------------------------------- operations: accounts
\* `not name or not name.strip()`
IsBlankName(name) == name = <<>> \/ Strip(name) = <<>>

\* urllib.parse.quote(s, safe=''): whitespace is percent-encoded.
QuoteChar(c) == IF c = " " THEN <<"%", "2", "0">>
                ELSE IF c = "\t" THEN <<"%", "0", "9">>
                ELSE <<c>>
RECURSIVE Quote(_)
Quote(s) == IF s = <<>> THEN <<>> ELSE QuoteChar(Head(s)) \o Quote(Tail(s))

\* Decode a required singular value: `if not response.data: raise ValueError`.
DecodeRequired(r, cls) ==
  Outcome(r,
    IF r.res.kind # "ok" THEN r.res
    ELSE IF Falsy(r.res.data) THEN NoDataError
    ELSE ReturnOf(FromDict(cls, r.res.data)))

\* Variant of DecodePage: an empty body is an error, as it is for a singular
\* value.
DecodePage_RequiresData(r, object_factory) ==
  Outcome(r,
    IF r.res.kind # "ok" THEN r.res
    ELSE IF Falsy(r.res.data) THEN NoDataError
    ELSE ReturnOf(EnumerationResultFromDict(r.res.data, object_factory)))

\* Decode a page: an empty body is the empty EnumerationResult.
DecodePage(r, object_factory) ==
  Outcome(r,
    IF r.res.kind # "ok" THEN r.res
    ELSE IF Falsy(r.res.data) THEN Return(EmptyEnumerationResult)
    ELSE ReturnOf(EnumerationResultFromDict(r.res.data, object_factory)))

\* Variant of account_create: the name is sent stripped of surrounding
\* whitespace.
account_create_StripsName(name, notes, net) ==
  IF IsBlankName(name)
    THEN NoRequest(NetLedgerValidationError("Account name cannot be empty", "name"))
  ELSE DecodeRequired(
         HttpPut(Path(<<"v1", "accounts">>),
                 Some([name |-> Strip(name)] @@ With(TruthyStr(notes), [notes |-> notes[1]])),
                 net),
         "Account")

\* AccountMethods.create
account_create(name, notes, net) ==
  IF IsBlankName(name)
    THEN NoRequest(NetLedgerValidationError("Account name cannot be empty", "name"))
  ELSE DecodeRequired(
         HttpPut(Path(<<"v1", "accounts">>),
                 Some([name |-> name] @@ With(TruthyStr(notes), [notes |-> notes[1]])), net),
         "Account")

\* AccountMethods.get
account_get(account_guid, net) ==
  DecodeRequired(HttpGet(Path(<<"v1", "accounts", account_guid>>), net), "Account")

\* AccountMethods.get_by_name
account_get_by_name(name, net) ==
  IF IsBlankName(name)
    THEN NoRequest(NetLedgerValidationError("Account name cannot be empty", "name"))
  ELSE DecodeRequired(HttpGet(Path(<<"v1", "accounts", "byname", Quote(name)>>), net),
                      "Account")

\* Variant of account_exists: any answer to the HEAD counts as existence.
account_exists_AnyAnswer(account_guid, net) ==
  LET r == HttpHead(Path(<<"v1", "accounts", account_guid>>), net)
  IN  Outcome(r, IF r.res.kind = "ok" THEN Return(TRUE) ELSE r.res)

\* AccountMethods.exists
account_exists(account_guid, net) ==
  LET r == HttpHead(Path(<<"v1", "accounts", account_guid>>), net)
  IN  Outcome(r, IF r.res.kind = "ok" THEN Return(r.res.value) ELSE r.res)

\* AccountMethods.delete
account_delete(account_guid, net) == DeleteAt(<<"v1", "accounts", account_guid>>, net)

\* AccountMethods.enumerate
account_enumerate(query, net) ==
  LET q == IF query = None THEN AccountEnumerationQuery(100, 0, None) ELSE query[1]
      params == [maxResults |-> q.max_results, skip |-> q.skip]
                @@ With(q.search_term # None /\ q.search_term[1] # <<>>,
                        [searchTerm |-> Quote(q.search_term[1])])
  IN  DecodePage(HttpGet(PathQ(<<"v1", "accounts">>, params), net), "Account")

\* ----------------------------------------------------- operations: API keys
\* ApiKeyMethods.create
api_key_create(name, is_admin, net) ==
  IF IsBlankName(name)
    THEN NoRequest(NetLedgerValidationError("API key name cannot be empty", "name"))
  ELSE DecodeRequired(
         HttpPut(Path(<<"v1", "apikeys">>), Some([name |-> name, isAdmin |-> is_admin]), net),
         "ApiKeyInfo")

\* ApiKeyMethods.enumerate
api_key_enumerate(query, net) ==
  LET q == IF query = None THEN ApiKeyEnumerationQuery(100, 0) ELSE query[1]
  IN  DecodePage(HttpGet(PathQ(<<"v1", "apikeys">>,
                               [maxResults |-> q.max_results, skip |-> q.skip]), net),
                 "ApiKeyInfo")

\* ApiKeyMethods.revoke
api_key_revoke(api_key_guid, net) == DeleteAt(<<"v1", "apikeys", api_key_guid>>, net)

\* ----------------------------------------------------- operations: balances
\* BalanceMethods.get
balance_get(account_guid, net) ==
  DecodeRequired(HttpGet(Path(<<"v1", "accounts", account_guid, "balance">>), net),
                 "Balance")

\* datetime.strftime('%Y-%m-%dT%H:%M:%SZ'): whole seconds, no zone conversion.
Strftime(as_of_utc) == [seconds |-> as_of_utc.seconds]

\* BalanceMethods.get_as_of
balance_get_as_of(account_guid, as_of_utc, net) ==
  LET r == HttpGet(PathQ(<<"v1", "accounts", account_guid, "balance", "asof">>,
                         [asOf |-> Strftime(as_of_utc)]), net)
  IN  Outcome(r,
        IF r.res.kind # "ok" THEN r.res
        ELSE IF Falsy(r.res.data) THEN NoDataError
        ELSE IF r.res.data.t # "object" THEN AttributeError
        ELSE Return(Get(r.res.data.o, "balance", 0)))

\* The keys of a dict in iteration order (kept here in ascending key order).
RECURSIVE KeysInOrder(_)
KeysInOrder(S) ==
  IF S = {} THEN <<>>
  ELSE LET k == CHOOSE x \in S : TRUE IN <<k>> \o KeysInOrder(S \ {k})

\* BalanceMethods.get_all
balance_get_all(net) ==
  LET r == HttpGet(Path(<<"v1", "balances">>), net)
  IN  Outcome(r,
        IF r.res.kind # "ok" THEN r.res
        ELSE IF Falsy(r.res.data) THEN Return(<<>>)
        ELSE IF r.res.data.t # "object" THEN AttributeError
        ELSE LET keys == KeysInOrder(DOMAIN r.res.data.o)
             IN  ReturnOf(DecodeList("Balance", [i \in 1..Len(keys) |-> r.res.data.o[keys[i]]])))

\* BalanceMethods.commit; entry_guids is None or a list of guids.
balance_commit(account_guid, entry_guids, net) ==
  LET body == IF entry_guids # None /\ entry_guids[1] # <<>>
                THEN Some([EntryGuids |-> entry_guids[1]]) ELSE None
  IN  DecodeRequired(HttpPost(Path(<<"v1", "accounts", account_guid, "commit">>), body, net),
                     "Balance")

\* BalanceMethods.verify
balance_verify(account_guid, net) ==
  LET r == HttpGet(Path(<<"v1", "accounts", account_guid, "verify">>), net)
  IN  Outcome(r,
        IF r.res.kind = "ok" THEN Return(r.res.status_code = 200)
        ELSE IF r.res.kind = "ApiError" /\ r.res.status_code = 409 THEN Return(FALSE)
        ELSE r.res)

\* ------------------------------------------------------ operations: service
\* Variant of health_check: without the `except Exception`, a transport error
\* reaches the caller.
health_check_Propagates(net) ==
  LET r == HttpHead(Path(<<>>), net)
  IN  Outcome(r, IF r.res.kind = "ok" THEN Return(r.res.value) ELSE r.res)

\* ServiceMethods.health_check
health_check(net) ==
  LET r == HttpHead(Path(<<>>), net)
  IN  Outcome(r, IF r.res.kind = "ok" THEN Return(r.res.value) ELSE Return(FALSE))

\* ServiceMethods.get_info
get_info(net) == DecodeRequired(HttpGet(Path(<<>>), net), "ServiceInfo")

\* -------------------------------------------------------- the client object
\* str.rstrip('/')
RECURSIVE RStripSlash(_)
RStripSlash(s) ==
  IF s # <<>> /\ s[Len(s)] = "/" THEN RStripSlash(SubSeq(s, 1, Len(s) - 1)) ELSE s

\* HttpClient.__init__: the fields every request reads, and a session that holds
\* the default headers and the pooled connections.
HttpClientInit(base_url, api_key, timeout_seconds) ==
  [base_url |-> RStripSlash(base_url),
   api_key |-> api_key,
   timeout |-> timeout_seconds,
   headers |-> [Authorization |-> <<"Bearer", api_key>>,
                Accept |-> "application/json",
                ContentType |-> "application/json"],
   session |-> "open"]

\* NetLedgerClient.__init__: both arguments must be non-blank; the method groups
\* share the one HttpClient.
NetLedgerClientInit(base_url, api_key, timeout_seconds) ==
  IF base_url = <<>> \/ Strip(base_url) = <<>>
    THEN Raised(ValueError("Base URL cannot be empty"))
  ELSE IF api_key = <<>> \/ Strip(api_key) = <<>>
    THEN Raised(ValueError("API key cannot be empty"))
  ELSE Decoded(HttpClientInit(RStripSlash(base_url), api_key, timeout_seconds))

\* The segments of a path as text: "/seg/seg".
RECURSIVE PathText(_)
PathText(segs) == IF segs = <<>> THEN <<>> ELSE <<"/", Head(segs)>> \o PathText(Tail(segs))

\* `url = f'{self.base_url}{path}'`
Url(cl, path) == cl.base_url \o PathText(path.segs)

\* `self.session.request(method, url, timeout=self.timeout, json=body)` and
\* `self.session.head(url, timeout=self.timeout)`: what goes on the wire, with the
\* session's default headers.
SessionRequest(cl, req) ==
  [method |-> req.method, url |-> Url(cl, req.path), timeout |-> cl.timeout,
   headers |-> cl.headers, json |-> req.body]

\* Variant of RequestFields: the request keeps its url as the client's base URL.
RequestFields_KeepsUrl(cl, req) == [cl EXCEPT !.base_url = Url(cl, req.path)]

\* The client's fields after `_request` / `head` built a request: url, kwargs and
\* response are locals, and no field is assigned.
RequestFields(cl, req) == cl

\* Session.close(): the pooled connections are released.
SessionClose(session) == "released"

\* Variant of HttpClientClose: a session that is already released is an error.
HttpClientClose_OnceOnly(cl) ==
  IF cl.session = "released"
    THEN [client |-> cl, out |-> ValueError("Session is closed")]
  ELSE [client |-> [cl EXCEPT !.session = SessionClose(cl.session)], out |-> Return(None)]

\* HttpClient.close
HttpClientClose(cl) ==
  [client |-> [cl EXCEPT !.session = SessionClose(cl.session)], out |-> Return(None)]

\* NetLedgerClient.close
NetLedgerClientClose(cl) == HttpClientClose(cl)

\* NetLedgerClient.__enter__
NetLedgerClientEnter(cl) == Return(cl)

\* NetLedgerClient.__exit__: closes whatever the block did; the None it returns
\* does not suppress the block's exception.
NetLedgerClientExit(cl, exc) ==
  LET closed == NetLedgerClientClose(cl)
  IN  [client |-> closed.client,
       out |-> IF closed.out.kind # "return" THEN closed.out
               ELSE IF exc # None THEN exc[1] ELSE Return(None)]

\* The callers that share one client, and the close() calls the model follows.
MaxCallers == 2
MaxCloses == 2
Callers == 1..MaxCallers
IdleCaller == [pc |-> "idle"]
NoCallers == [c \in Callers |-> IdleCaller]
NoBlock == [pc |-> "outside", exc |-> None, closes |-> 0, out |-> [kind |-> "none"]]
\* The client of the single-caller specifications.
TheClient == HttpClientInit(<<"h", "/">>, <<"k">>, 30)

\* ------------------------------------------------------------------- state
VARIABLES
  op,        \* the operation of the last call
  args,      \* its arguments
  net,       \* what the network did with its request (NoNet: nothing was sent)
  sent,      \* the HTTP requests the call issued, in order
  reply,     \* what the transport call gave back: an envelope or a raised error
  outcome,   \* what the caller got: a returned value or a raised error
  ledger,    \* the server's entries of the account, in creation order
  paging,    \* the pages a caller has fetched for one query, in order
  server,    \* the server's account: whether it exists, and its cancelled entries
  test_entry_guids,  \* the harness's record of the guids add_credit / add_debit returned,
                     \* with each entry's type
  test_account,      \* the harness's record of the account it created: its guid as
                     \* returned by account.create and the name it gave, or None
  client,    \* the client object's fields: base URL, credential, timeout, the
             \* session's default headers and whether the session holds connections
  callers,   \* the callers sharing the client: each one's call in progress
  block      \* a `with` statement over the client and the close() calls made so far

vars ==
  <<op, args, net, sent, reply, outcome, ledger, paging, server, test_entry_guids, test_account,
    client, callers, block>>

NoNet == [kind |-> "none"]
NoPaging == [active |-> FALSE]
\* The account as the server holds it after its creation.
NewAccount == [exists |-> TRUE, cancelled |-> {}]

\* The caller is between two calls.
Idle == op = "none"

\* One blocking call: r is the operation applied to its arguments and to n.
Call(o, a, n, r) ==
  /\ op' = o
  /\ args' = a
  /\ sent' = r.sent
  /\ net' = IF r.sent = <<>> THEN NoNet ELSE n
  /\ reply' = r.res
  /\ outcome' = r.out

\* ------------------------------------------------- inputs of the client calls
AccountGuids == {"acct-1"}
EntryGuids == {"e1", "e2"}
Amounts == (-1)..MaxAmount
Descriptions == {None, Some(""), Some("memo")}
Names == SeqsUpTo(Chars, MaxNameLen)
Batches == SeqsUpTo({EntryInput(a, None) : a \in Amounts} \cup {EntryInput(1, Some("memo"))},
                    MaxBatch)

OkStatuses == {200, 204, 299}
ErrorStatuses == {300, 401, 404, 409, 500}
Reasons == {"", "Reason"}
RequestGuids == {None, Some("rq-1")}

\* Bodies of any answer: nothing, not JSON, and JSON that is not an object.
CommonTexts ==
  {EmptyText, BlankText, GarbageText,
   JsonText(PyNone), JsonText(JArray(<<>>)), JsonText(JString("x")), JsonText(JNumber(1)),
   JsonText(JObject(EmptyDict))}
\* Bodies of an error answer: the server's {message, description?} and others.
ErrorTexts ==
  CommonTexts \cup
  {JsonText(JObject([message |-> "m", description |-> "d"])),
   JsonText(JObject([message |-> "m"])),
   JsonText(JObject([error |-> "e"]))}

Nets(okTexts) ==
  {NetTimeout, NetFailure}
  \cup {NetResponse(s, r, t, None) : s \in ErrorStatuses, r \in Reasons, t \in ErrorTexts}
  \cup {NetResponse(s, "OK", t, g) : s \in OkStatuses, t \in CommonTexts \cup okTexts,
                                     g \in RequestGuids}

EntryGuidsTexts ==
  {JsonText(JObject([Other |-> 1])),
   JsonText(JObject([EntryGuids |-> JArray(<<>>)])),
   JsonText(JObject([EntryGuids |-> JArray(<<"e1">>)])),
   JsonText(JObject([EntryGuids |-> JArray(<<"e1", "e2">>)])),
   JsonText(JObject([EntryGuids |-> JArray(<<"">>)]))}

\* The guid the server gives the i-th entry it creates, and its answer to an
\* accepted batch of k entries: their guids, in the order of the inputs.
ServerEntryGuid(i) == "e" \o ToString(i)
ServerCreatedBatch(k) ==
  NetResponse(200, "OK",
              JsonText(JObject([EntryGuids |-> JArray([i \in 1..k |-> ServerEntryGuid(i)])])),
              Some("rq-1"))

\* An entry of the server's ledger as the server writes it.
ServerWireEntry(e) ==
  JObject([GUID |-> e.guid, AccountGUID |-> "acct-1",
           Type |-> JString(IF e.type = CREDIT THEN "Credit"
                            ELSE IF e.type = DEBIT THEN "Debit" ELSE "Balance"),
           Amount |-> e.amount, IsCommitted |-> e.committed, CreatedUtc |-> e.created])

\* POST .../entries/enumerate: one page of the filtered, ordered entries; the
\* token of a page is the guid of its last entry.
ServerPage(sorted, start, stop) ==
  NetResponse(200, "OK",
    JsonText(JObject(
      [TotalRecords |-> Len(sorted),
       RecordsRemaining |-> Len(sorted) - stop,
       EndOfResults |-> Len(sorted) - stop = 0,
       ContinuationToken |-> IF Len(sorted) - stop = 0 THEN None ELSE Some(sorted[stop].guid),
       Objects |-> JArray([i \in 1..(stop - start) |-> ServerWireEntry(sorted[start + i])])])),
    Some("rq-1"))

\* Entries, accounts and keys as the server writes them.
WireEntry(guid, type, amount, created) ==
  JObject([GUID |-> guid, AccountGUID |-> "acct-1", Type |-> type, Amount |-> amount,
           IsCommitted |-> FALSE, CreatedUtc |-> created])
WireAccount(guid, name) == JObject([GUID |-> guid, Name |-> name, CreatedUtc |-> 1])
WireApiKey(guid, name) == JObject([GUID |-> guid, Name |-> name, Active |-> TRUE, IsAdmin |-> FALSE])
WireBalance(guid, committed, pending) ==
  JObject([AccountGUID |-> guid, CommittedBalance |-> committed, PendingBalance |-> pending])

SomeEntries ==
  {<<WireEntry("e1", JString("Credit"), 1, 1)>>,
   <<WireEntry("e1", JNumber(0), 1, 1), WireEntry("e2", JString("Debit"), 2, 2)>>}

\* Entry lists holding an entry whose Type is a number that is no type code.
OutOfRangeEntries ==
  {<<WireEntry("e1", JNumber(7), 1, 1)>>,
   <<WireEntry("e1", JNumber(1), 1, 1), WireEntry("e2", JNumber(3), 2, 2)>>}

\* Enumeration envelopes, with every subset of the metadata fields present.
PageTexts(lists) ==
  {JsonText(JObject(
      With(tr # None, [TotalRecords |-> 2])
      @@ With(rr # None, [RecordsRemaining |-> IF rr = None THEN 0 ELSE rr[1]])
      @@ With(eor # None, [EndOfResults |-> IF eor = None THEN TRUE ELSE eor[1]])
      @@ With(ct # None, [ContinuationToken |-> IF ct = None THEN None ELSE ct[1]])
      @@ With(objs # None, [Objects |-> IF objs = None THEN PyNone ELSE objs[1]]))) :
    tr \in {None, Some(2)},
    rr \in {None, Some(0), Some(1)},
    eor \in {None, Some(TRUE), Some(FALSE)},
    ct \in {None, Some(None), Some(Some("tok"))},
    objs \in {None, Some(PyNone), Some(JArray(<<>>))} \cup {Some(JArray(l)) : l \in lists}}

\* The answers offered to an enumeration: every envelope, under status 200.
PageNets(lists) ==
  Nets({}) \cup {NetResponse(200, "OK", t, None) : t \in PageTexts(lists)}

\* A few answers of each kind, for calls whose arguments are what varies.
FewNets ==
  {NetTimeout, NetResponse(404, "Not Found", JsonText(JObject([message |-> "m"])), None),
   NetResponse(200, "OK", EmptyText, None)}

MaybeStr(v) == {None, Some(""), Some(v)}
EntryQueries ==
  {EntryEnumerationQuery(m, t, ca, cb, mn, mx, o) :
     m \in {0, 1, 100}, t \in MaybeStr("tok"), ca \in MaybeStr("2024-01-01T00:00:00Z"),
     cb \in {None, Some("2025-01-01T00:00:00Z")},
     mn \in {None, Some(0), Some(1)}, mx \in {None, Some(0), Some(MaxAmount)},
     o \in EnumerationOrder}

EntryListTexts ==
  {JsonText(JObject([TotalRecords |-> 0])),
   JsonText(JObject([Objects |-> PyNone])),
   JsonText(JObject([Objects |-> JArray(<<>>)]))}
  \cup {JsonText(JObject([Objects |-> JArray(l)])) : l \in SomeEntries \cup OutOfRangeEntries}
\* The Type field as a server may write it: the three codes, the three names,
\* names and a code outside them.
WireTypes ==
  {JNumber(CREDIT), JNumber(DEBIT), JNumber(BALANCE),
   JString("Credit"), JString("Debit"), JString("Balance"),
   JString("credit"), JString(""), JNumber(7)}
TypedEntries ==
  {<<WireEntry("e1", t, 1, 1)>> : t \in WireTypes}
  \cup {<<WireEntry("e1", JNumber(DEBIT), 1, 1), WireEntry("e2", t, 2, 2)>> :
          t \in {JString("Debit"), JNumber(7)}}
PendingTexts == {JsonText(JArray(l)) : l \in SomeEntries \cup TypedEntries}
AccountTexts ==
  {JsonText(WireAccount("acct-1", <<"a">>)), JsonText(JObject([Name |-> <<"a">>]))}
ApiKeyTexts == {JsonText(WireApiKey("k1", <<"a">>)), JsonText(JObject([Key |-> "secret"]))}
BalanceTexts ==
  {JsonText(WireBalance("acct-1", 1, 0)), JsonText(JObject([CommittedBalance |-> 1]))}
AsOfTexts == {JsonText(JObject([balance |-> 1])), JsonText(JObject([accountGuid |-> "acct-1"]))}
BalanceMapTexts ==
  {JsonText(JObject("acct-1" :> WireBalance("acct-1", 1, 0))),
   JsonText(JObject(("acct-1" :> WireBalance("acct-1", 1, 0))
                    @@ ("acct-2" :> WireBalance("acct-2", 0, 2)))),
   JsonText(JObject("acct-1" :> JObject([CommittedBalance |-> 1, PendingBalance |-> 0])))}
\* Service information with each field absent or present, under PascalCase
\* names and under lowerCamelCase names.
ServiceInfoPascal ==
  {With(n # None, [Name |-> n[1]]) @@ With(v # None, [Version |-> v[1]])
     @@ With(t # None, [StartTimeUtc |-> t[1]]) @@ With(u # None, [UptimeSeconds |-> u[1]])
     @@ With(f # None, [UptimeFormatted |-> f[1]]) :
     n \in {None, Some(JString("NetLedger"))},
     v \in {None, Some(JString("1"))},
     t \in {None, Some(JString("")), Some(JString("2024-01-01T00:00:00Z"))},
     u \in {None, Some(JNumber(0)), Some(JNumber(5))},
     f \in {None, Some(JString("5s"))}}
CamelOf(k) ==
  CASE k = "Name" -> "name"
    [] k = "Version" -> "version"
    [] k = "StartTimeUtc" -> "startTimeUtc"
    [] k = "UptimeSeconds" -> "uptimeSeconds"
    [] k = "UptimeFormatted" -> "uptimeFormatted"
\* The payload holding the same values under lowerCamelCase names.
ToCamel(o) ==
  [c \in {CamelOf(k) : k \in DOMAIN o} |-> o[CHOOSE k \in DOMAIN o : CamelOf(k) = c]]
ServiceInfoTexts ==
  {JsonText(JObject(o)) : o \in ServiceInfoPascal}
  \cup {JsonText(JObject(ToCamel(o))) : o \in ServiceInfoPascal}
GuidLists == {None, Some(<<>>), Some(<<"e1">>), Some(<<"e1", "e2">>)}
Instants == {[seconds |-> 1, microsecond |-> u] : u \in {0, 5}}

\* ------------------------------------------------ actions: one per operation
AddCredit ==
  /\ Idle
  /\ \E g \in AccountGuids, a \in Amounts, d \in Descriptions, n \in Nets(EntryGuidsTexts) :
       Call("add_credit", [account_guid |-> g, amount |-> a, description |-> d], n,
            add_credit(g, a, d, n))
  /\ UNCHANGED <<ledger, paging, server, test_entry_guids, test_account, client, callers, block>>

AddDebit ==
  /\ Idle
  /\ \E g \in AccountGuids, a \in Amounts, d \in Descriptions, n \in Nets(EntryGuidsTexts) :
       Call("add_debit", [account_guid |-> g, amount |-> a, description |-> d], n,
            add_debit(g, a, d, n))
  /\ UNCHANGED <<ledger, paging, server, test_entry_guids, test_account, client, callers, block>>

AddCredits ==
  /\ Idle
  /\ \E g \in AccountGuids, es \in Batches :
       \E n \in Nets(EntryGuidsTexts) \cup {ServerCreatedBatch(Len(es))} :
         Call("add_credits", [account_guid |-> g, entries |-> es], n, add_credits(g, es, n))
  /\ UNCHANGED <<ledger, paging, server, test_entry_guids, test_account, client, callers, block>>

AddDebits ==
  /\ Idle
  /\ \E g \in AccountGuids, es \in Batches :
       \E n \in Nets(EntryGuidsTexts) \cup {ServerCreatedBatch(Len(es))} :
         Call("add_debits", [account_guid |-> g, entries |-> es], n, add_debits(g, es, n))
  /\ UNCHANGED <<ledger, paging, server, test_entry_guids, test_account, client, callers, block>>

GetAll ==
  /\ Idle
  /\ \E g \in AccountGuids, n \in Nets(EntryListTexts) :
       Call("get_all", [account_guid |-> g], n, entry_get_all(g, n))
  /\ UNCHANGED <<ledger, paging, server, test_entry_guids, test_account, client, callers, block>>

Enumerate ==
  /\ Idle
  /\ \E g \in AccountGuids :
       \/ \E q \in EntryQueries, n \in FewNets :
            Call("enumerate", [account_guid |-> g, query |-> Some(q)], n,
                 entry_enumerate(g, Some(q), n))
       \/ \E n \in PageNets(SomeEntries) \cup {ServerPage(<<>>, 0, 0)}
                    \cup {NetResponse(200, "OK", JsonText(JObject([Objects |-> JArray(l)])), None) :
                            l \in OutOfRangeEntries} :
            Call("enumerate", [account_guid |-> g, query |-> None], n,
                 entry_enumerate(g, None, n))
  /\ UNCHANGED <<ledger, paging, server, test_entry_guids, test_account, client, callers, block>>

GetPending ==
  /\ Idle
  /\ \E g \in AccountGuids, n \in Nets(PendingTexts) :
       Call("get_pending", [account_guid |-> g], n, get_pending(g, n))
  /\ UNCHANGED <<ledger, paging, server, test_entry_guids, test_account, client, callers, block>>

GetPendingCredits ==
  /\ Idle
  /\ \E g \in AccountGuids, n \in Nets(PendingTexts) :
       Call("get_pending_credits", [account_guid |-> g], n, get_pending_credits(g, n))
  /\ UNCHANGED <<ledger, paging, server, test_entry_guids, test_account, client, callers, block>>

GetPendingDebits ==
  /\ Idle
  /\ \E g \in AccountGuids, n \in Nets(PendingTexts) :
       Call("get_pending_debits", [account_guid |-> g], n, get_pending_debits(g, n))
  /\ UNCHANGED <<ledger, paging, server, test_entry_guids, test_account, client, callers, block>>

Cancel ==
  /\ Idle
  /\ \E g \in AccountGuids, e \in EntryGuids, n \in Nets({}) :
       Call("cancel", [account_guid |-> g, entry_guid |-> e], n, entry_cancel(g, e, n))
  /\ UNCHANGED <<ledger, paging, server, test_entry_guids, test_account, client, callers, block>>

AccountCreate ==
  /\ Idle
  /\ \E nm \in Names, nt \in Descriptions, n \in Nets(AccountTexts) :
       Call("account.create", [name |-> nm, notes |-> nt], n, account_create(nm, nt, n))
  /\ UNCHANGED <<ledger, paging, server, test_entry_guids, test_account, client, callers, block>>

AccountGet ==
  /\ Idle
  /\ \E g \in AccountGuids, n \in Nets(AccountTexts) :
       Call("account.get", [account_guid |-> g], n, account_get(g, n))
  /\ UNCHANGED <<ledger, paging, server, test_entry_guids, test_account, client, callers, block>>

AccountGetByName ==
  /\ Idle
  /\ \E nm \in Names, n \in Nets(AccountTexts) :
       Call("account.get_by_name", [name |-> nm], n, account_get_by_name(nm, n))
  /\ UNCHANGED <<ledger, paging, server, test_entry_guids, test_account, client, callers, block>>

AccountExists ==
  /\ Idle
  /\ \E g \in AccountGuids, n \in Nets({}) :
       Call("account.exists", [account_guid |-> g], n, account_exists(g, n))
  /\ UNCHANGED <<ledger, paging, server, test_entry_guids, test_account, client, callers, block>>

AccountDelete ==
  /\ Idle
  /\ \E g \in AccountGuids, n \in Nets({}) :
       Call("account.delete", [account_guid |-> g], n, account_delete(g, n))
  /\ UNCHANGED <<ledger, paging, server, test_entry_guids, test_account, client, callers, block>>

AccountEnumerate ==
  /\ Idle
  /\ \/ \E m \in {0, 1, 100}, sk \in {0, 1}, st \in {None, Some(<<>>), Some(<<"a", " ">>)},
          n \in FewNets :
            Call("account.enumerate", [query |-> Some(AccountEnumerationQuery(m, sk, st))], n,
                 account_enumerate(Some(AccountEnumerationQuery(m, sk, st)), n))
     \/ \E n \in PageNets({<<WireAccount("acct-1", <<"a">>)>>}) :
            Call("account.enumerate", [query |-> None], n, account_enumerate(None, n))
  /\ UNCHANGED <<ledger, paging, server, test_entry_guids, test_account, client, callers, block>>

ApiKeyCreate ==
  /\ Idle
  /\ \E nm \in Names, adm \in BOOLEAN, n \in Nets(ApiKeyTexts) :
       Call("api_key.create", [name |-> nm, is_admin |-> adm], n, api_key_create(nm, adm, n))
  /\ UNCHANGED <<ledger, paging, server, test_entry_guids, test_account, client, callers, block>>

ApiKeyEnumerate ==
  /\ Idle
  /\ \/ \E m \in {0, 1, 100}, sk \in {0, 1}, n \in FewNets :
            Call("api_key.enumerate", [query |-> Some(ApiKeyEnumerationQuery(m, sk))], n,
                 api_key_enumerate(Some(ApiKeyEnumerationQuery(m, sk)), n))
     \/ \E n \in PageNets({<<WireApiKey("k1", <<"a">>)>>}) :
            Call("api_key.enumerate", [query |-> None], n, api_key_enumerate(None, n))
  /\ UNCHANGED <<ledger, paging, server, test_entry_guids, test_account, client, callers, block>>

ApiKeyRevoke ==
  /\ Idle
  /\ \E k \in {"k1"}, n \in Nets({}) :
       Call("api_key.revoke", [api_key_guid |-> k], n, api_key_revoke(k, n))
  /\ UNCHANGED <<ledger, paging, server, test_entry_guids, test_account, client, callers, block>>

BalanceGet ==
  /\ Idle
  /\ \E g \in AccountGuids, n \in Nets(BalanceTexts) :
       Call("balance.get", [account_guid |-> g], n, balance_get(g, n))
  /\ UNCHANGED <<ledger, paging, server, test_entry_guids, test_account, client, callers, block>>

BalanceGetAsOf ==
  /\ Idle
  /\ \E g \in AccountGuids, t \in Instants, n \in Nets(AsOfTexts) :
       Call("balance.get_as_of", [account_guid |-> g, as_of_utc |-> t], n,
            balance_get_as_of(g, t, n))
  /\ UNCHANGED <<ledger, paging, server, test_entry_guids, test_account, client, callers, block>>

BalanceGetAll ==
  /\ Idle
  /\ \E n \in Nets(BalanceMapTexts) : Call("balance.get_all", EmptyDict, n, balance_get_all(n))
  /\ UNCHANGED <<ledger, paging, server, test_entry_guids, test_account, client, callers, block>>

BalanceCommit ==
  /\ Idle
  /\ \E g \in AccountGuids, gs \in GuidLists, n \in Nets(BalanceTexts) :
       Call("balance.commit", [account_guid |-> g, entry_guids |-> gs], n,
            balance_commit(g, gs, n))
  /\ UNCHANGED <<ledger, paging, server, test_entry_guids, test_account, client, callers, block>>

BalanceVerify ==
  /\ Idle
  /\ \E g \in AccountGuids, n \in Nets({}) :
       Call("balance.verify", [account_guid |-> g], n, balance_verify(g, n))
  /\ UNCHANGED <<ledger, paging, server, test_entry_guids, test_account, client, callers, block>>

HealthCheck ==
  /\ Idle
  /\ \E n \in Nets({}) : Call("health_check", EmptyDict, n, health_check(n))
  /\ UNCHANGED <<ledger, paging, server, test_entry_guids, test_account, client, callers, block>>

GetInfo ==
  /\ Idle
  /\ \E n \in Nets(ServiceInfoTexts) : Call("get_info", EmptyDict, n, get_info(n))
  /\ UNCHANGED <<ledger, paging, server, test_entry_guids, test_account, client, callers, block>>

\* The caller has dealt with the outcome and is ready for its next call.
Finish ==
  /\ op # "none"
  /\ op' = "none"
  /\ args' = EmptyDict
  /\ net' = NoNet
  /\ sent' = <<>>
  /\ reply' = NoReply
  /\ outcome' = [kind |-> "none"]
  /\ UNCHANGED <<ledger, paging, server, test_entry_guids, test_account, client, callers, block>>

Init ==
  /\ op = "none"
  /\ args = EmptyDict
  /\ net = NoNet
  /\ sent = <<>>
  /\ reply = NoReply
  /\ outcome = [kind |-> "none"]
  /\ ledger = <<>>
  /\ paging = NoPaging
  /\ server = NewAccount
  /\ test_entry_guids = <<>>
  /\ test_account = None
  /\ client = TheClient
  /\ callers = NoCallers
  /\ block = NoBlock

Next ==
  \/ AddCredit
  \/ AddDebit
  \/ AddCredits
  \/ AddDebits
  \/ GetAll
  \/ Enumerate
  \/ GetPending
  \/ GetPendingCredits
  \/ GetPendingDebits
  \/ Cancel
  \/ AccountCreate
  \/ AccountGet
  \/ AccountGetByName
  \/ AccountExists
  \/ AccountDelete
  \/ AccountEnumerate
  \/ ApiKeyCreate
  \/ ApiKeyEnumerate
  \/ ApiKeyRevoke
  \/ BalanceGet
  \/ BalanceGetAsOf
  \/ BalanceGetAll
  \/ BalanceCommit
  \/ BalanceVerify
  \/ HealthCheck
  \/ GetInfo
  \/ Finish

Spec == Init /\ [][Next]_vars

\* ---------------------------------------------------------------- the server
\* The ledger service behind the REST surface, for one account: the entries in
\* creation order, each [guid, type, amount, created, committed].
MaxEntries == 2     \* most entries created in the account during a run
MaxPage == 2        \* page sizes range over 1 .. MaxPage (and the harness's 5)

\* The next creation timestamp: the clock may or may not have advanced since
\* the previous entry was created.
NextCreated(led) == IF led = <<>> THEN {1} ELSE {led[Len(led)].created, led[Len(led)].created + 1}

\* PUT .../credits or .../debits with a single-entry payload.
ServerCreate(led, type, req, created) ==
  Append(led, [guid |-> ServerEntryGuid(Len(led) + 1), type |-> type,
               amount |-> req.body[1].Amount, created |-> created, committed |-> FALSE])
ServerCreated(led) ==
  NetResponse(200, "OK", JsonText(JObject([EntryGuids |-> JArray(<<led[Len(led)].guid>>)])),
              Some("rq-1"))

\* a comes strictly before b under the ordering.
Before(ordering, a, b) ==
  IF ordering = CREATED_ASCENDING THEN a.created < b.created
  ELSE IF ordering = CREATED_DESCENDING THEN a.created > b.created
  ELSE IF ordering = AMOUNT_ASCENDING THEN a.amount < b.amount
  ELSE a.amount > b.amount

\* The place of entry i of s under the ordering; equal keys keep their
\* creation order.
Rank(ordering, s, i) ==
  1 + Cardinality({j \in 1..Len(s) :
                     \/ Before(ordering, s[j], s[i])
                     \/ (~Before(ordering, s[i], s[j]) /\ j < i)})

SortEntries(ordering, s) ==
  [k \in 1..Len(s) |-> s[CHOOSE i \in 1..Len(s) : Rank(ordering, s, i) = k]]

\* The entries an amount filter keeps, in creation order.
Matches(payload, e) ==
  /\ ("AmountMinimum" \in DOMAIN payload => payload.AmountMinimum <= e.amount)
  /\ ("AmountMaximum" \in DOMAIN payload => e.amount <= payload.AmountMaximum)

FilterEntries(payload, s) == SelectSeq(s, LAMBDA e : Matches(payload, e))

\* The position of the entry a continuation token names (0: none).
TokenPosition(sorted, payload) ==
  IF "ContinuationToken" \notin DOMAIN payload THEN 0
  ELSE IF \E i \in 1..Len(sorted) : sorted[i].guid = payload.ContinuationToken
    THEN CHOOSE i \in 1..Len(sorted) : sorted[i].guid = payload.ContinuationToken
  ELSE 0

Min(a, b) == IF a < b THEN a ELSE b

ServerPageFrom(sorted, start, max_results) ==
  ServerPage(sorted, start, Min(Len(sorted), start + max_results))

ServerPageOf(sorted, payload) ==
  ServerPageFrom(sorted, TokenPosition(sorted, payload), payload.MaxResults)

ServerEnumerate(led, req) ==
  ServerPageOf(SortEntries(req.body[1].Ordering, FilterEntries(req.body[1], led)), req.body[1])

\* ------------------------------------------------- the client and the server
\* One call against the server: the request the operation issues (it does not
\* depend on the answer) is answered by Serve.
Answered(Operation(_), n) == [net |-> n, r |-> Operation(n)]
ExchangeFrom(Operation(_), Serve(_), probe) ==
  IF probe.sent = <<>> THEN [net |-> NoNet, r |-> probe]
  ELSE Answered(Operation, Serve(probe.sent[1]))
Exchange(Operation(_), Serve(_)) == ExchangeFrom(Operation, Serve, Operation(NetTimeout))

\* The 15 amounts of the harness's pagination account, in creation order.
HarnessAmounts == <<10, 50, 25, 75, 5, 100, 30, 15, 60, 45, 80, 20, 90, 35, 55>>
HarnessLedger ==
  [i \in 1..Len(HarnessAmounts) |->
     [guid |-> ServerEntryGuid(i), type |-> CREDIT, amount |-> HarnessAmounts[i],
      created |-> i, committed |-> FALSE]]
HarnessPageSize == 5

PageSizes == (1..MaxPage) \cup {HarnessPageSize}

\* add_credit / add_debit with a valid amount, accepted by the server.
CreateEntry(o, type, Operation(_, _, _, _)) ==
  \E a \in 1..MaxAmount, c \in NextCreated(ledger) :
    \E x \in {Exchange(LAMBDA n : Operation("acct-1", a, None, n),
                       LAMBDA req : ServerCreated(ServerCreate(ledger, type, req, c)))} :
       /\ Call(o, [account_guid |-> "acct-1", amount |-> a, description |-> None],
               x.net, x.r)
       /\ ledger' = IF x.r.sent = <<>> THEN ledger
                    ELSE ServerCreate(ledger, type, x.r.sent[1], c)

LedgerAddCredit ==
  /\ Len(ledger) < MaxEntries
  /\ CreateEntry("add_credit", CREDIT, add_credit)
  /\ paging' = NoPaging
  /\ UNCHANGED <<server, test_entry_guids, test_account, client, callers, block>>

LedgerAddDebit ==
  /\ Len(ledger) < MaxEntries
  /\ CreateEntry("add_debit", DEBIT, add_debit)
  /\ paging' = NoPaging
  /\ UNCHANGED <<server, test_entry_guids, test_account, client, callers, block>>

\* One entry.enumerate call with query q against the server.
EnumerateCall(q) ==
  Exchange(LAMBDA n : entry_enumerate("acct-1", Some(q), n),
           LAMBDA req : ServerEnumerate(ledger, req))

\* The paging loop goes on: the last page is not the end and carries a token.
PagingOpen ==
  /\ paging.active
  /\ ~paging.pages[Len(paging.pages)].end_of_results
  /\ TruthyStr(paging.pages[Len(paging.pages)].continuation_token)

\* The harness's paging loop, first call: a query without a token.  A loop is
\* started when the previous one has run to its end.
PageFirst ==
  /\ ~PagingOpen
  /\ \E m \in PageSizes, o \in EnumerationOrder :
       \E q \in {EntryEnumerationQuery(m, None, None, None, None, None, o)} :
         \E x \in {EnumerateCall(q)} :
           /\ Call("enumerate", [account_guid |-> "acct-1", query |-> Some(q)], x.net, x.r)
           /\ paging' = [active |-> TRUE, query |-> q, pages |-> <<x.r.out.value>>]
  /\ UNCHANGED <<ledger, server, test_entry_guids, test_account, client, callers, block>>

\* The paging loop, next call: the same query with the last page's token,
\* unless that page is the end or carries no token.  (Creating an entry ends
\* the loop: a paging run is over one fixed set of entries.)
PageNext ==
  /\ PagingOpen
  /\ LET last == paging.pages[Len(paging.pages)]
     IN  /\ \E q \in {[paging.query EXCEPT !.continuation_token = last.continuation_token]} :
              \E x \in {EnumerateCall(q)} :
                /\ Call("enumerate", [account_guid |-> "acct-1", query |-> Some(q)],
                        x.net, x.r)
                /\ paging' = [paging EXCEPT !.pages = Append(@, x.r.out.value)]
  /\ UNCHANGED <<ledger, server, test_entry_guids, test_account, client, callers, block>>

\* The harness's filtered enumeration: amounts 20 .. 60, three per page,
\* ascending by amount; and bounds around the amounts of the created entries.
HarnessFilterPageSize == 3
AmountFilters ==
  {<<Some(20), Some(60)>>, <<Some(2), None>>, <<None, Some(1)>>, <<None, Some(0)>>}

\* A paging loop over a filtered query, first call.
PageFirstFiltered ==
  /\ ~PagingOpen
  /\ \E m \in {1, HarnessFilterPageSize}, f \in AmountFilters :
       \E q \in {EntryEnumerationQuery(m, None, None, None, f[1], f[2], AMOUNT_ASCENDING)} :
         \E x \in {EnumerateCall(q)} :
           /\ Call("enumerate", [account_guid |-> "acct-1", query |-> Some(q)], x.net, x.r)
           /\ paging' = [active |-> TRUE, query |-> q, pages |-> <<x.r.out.value>>]
  /\ UNCHANGED <<ledger, server, test_entry_guids, test_account, client, callers, block>>

InitLedger ==
  /\ op = "none"
  /\ args = EmptyDict
  /\ net = NoNet
  /\ sent = <<>>
  /\ reply = NoReply
  /\ outcome = [kind |-> "none"]
  /\ ledger \in {<<>>, HarnessLedger}
  /\ paging = NoPaging
  /\ server = NewAccount
  /\ test_entry_guids = <<>>
  /\ test_account = None
  /\ client = TheClient
  /\ callers = NoCallers
  /\ block = NoBlock

NextLedger ==
  \/ LedgerAddCredit
  \/ LedgerAddDebit
  \/ PageFirst
  \/ PageFirstFiltered
  \/ PageNext

SpecLedger == InitLedger /\ [][NextLedger]_vars

\* ------------------------------------------------- the account's life cycle
\* The server's side of one account and its entries, by request.  Cancelling
\* an entry removes it; a commit folds pending entries into the committed
\* balance and records a balance snapshot, an entry of type Balance.
IsPending(srv, e) == ~e.committed /\ e.guid \notin srv.cancelled
ServerPending(led, srv) == SelectSeq(led, LAMBDA e : IsPending(srv, e))
ServerPendingOfType(led, srv, type) ==
  SelectSeq(led, LAMBDA e : IsPending(srv, e) /\ e.type = type)
ServerAllEntries(led, srv) == SelectSeq(led, LAMBDA e : e.guid \notin srv.cancelled)

\* The balance over the committed (or the pending) credits and debits.
RECURSIVE ServerBalance(_, _, _)
ServerBalance(led, srv, committed) ==
  IF led = <<>> THEN 0
  ELSE ServerBalance(SubSeq(led, 1, Len(led) - 1), srv, committed)
       + (IF led[Len(led)].type = BALANCE \/ led[Len(led)].guid \in srv.cancelled
             \/ led[Len(led)].committed # committed THEN 0
          ELSE IF led[Len(led)].type = CREDIT THEN led[Len(led)].amount
          ELSE 0 - led[Len(led)].amount)

\* The guids a commit request names: those of its body, or every pending one.
CommitGuids(led, srv, req) ==
  IF req.body = None
    THEN {led[i].guid : i \in {j \in 1..Len(led) : IsPending(srv, led[j])}}
  ELSE {req.body[1].EntryGuids[i] : i \in 1..Len(req.body[1].EntryGuids)}
MarkCommitted(led, guids) ==
  [i \in 1..Len(led) |-> IF led[i].guid \in guids THEN [led[i] EXCEPT !.committed = TRUE]
                         ELSE led[i]]
ServerCommit(led, srv, guids) ==
  Append(MarkCommitted(led, guids),
         [guid |-> ServerEntryGuid(Len(led) + 1), type |-> BALANCE,
          amount |-> ServerBalance(MarkCommitted(led, guids), srv, TRUE),
          created |-> Len(led) + 1, committed |-> TRUE])

ServerOk(text) == NetResponse(200, "OK", text, Some("rq-1"))
ServerNoContent == NetResponse(204, "No Content", EmptyText, Some("rq-1"))
ServerNotFound ==
  NetResponse(404, "Not Found", JsonText(JObject([message |-> "Not found"])), Some("rq-1"))
ServerConflict ==
  NetResponse(409, "Conflict", JsonText(JObject([message |-> "Conflict"])), Some("rq-1"))
ServerEntryList(entries) == JArray([i \in 1..Len(entries) |-> ServerWireEntry(entries[i])])

\* The path segments after /v1/accounts/{guid}.
Resource(req) == SubSeq(req.path.segs, 4, Len(req.path.segs))
EntryOf(led, guid) == {i \in 1..Len(led) : led[i].guid = guid}
\* DELETE .../entries/{entryGuid} succeeds for a pending entry.
CanCancel(led, srv, guid) == \E i \in EntryOf(led, guid) : IsPending(srv, led[i])
\* POST .../commit succeeds when every guid it names is pending.
CanCommit(led, srv, guids) ==
  \A g \in guids : \E i \in EntryOf(led, g) : IsPending(srv, led[i])
CreatedType(res) == IF res = <<"credits">> THEN CREDIT ELSE DEBIT

\* The server's answer to a request on the account, res being its resource.
ServerAnswerAt(led, srv, req, res) ==
  IF ~srv.exists THEN ServerNotFound
  ELSE IF req.method = "HEAD" /\ res = <<>> THEN ServerOk(EmptyText)
  ELSE IF req.method = "DELETE" /\ res = <<>> THEN ServerNoContent
  ELSE IF req.method = "PUT" /\ res \in {<<"credits">>, <<"debits">>}
    THEN ServerCreated(ServerCreate(led, CreatedType(res), req, Len(led) + 1))
  ELSE IF req.method = "GET" /\ res = <<"entries">>
    THEN ServerOk(JsonText(JObject([Objects |-> ServerEntryList(ServerAllEntries(led, srv))])))
  ELSE IF req.method = "GET" /\ res = <<"entries", "pending">>
    THEN ServerOk(JsonText(ServerEntryList(ServerPending(led, srv))))
  ELSE IF req.method = "GET" /\ res = <<"entries", "pending", "credits">>
    THEN ServerOk(JsonText(ServerEntryList(ServerPendingOfType(led, srv, CREDIT))))
  ELSE IF req.method = "GET" /\ res = <<"entries", "pending", "debits">>
    THEN ServerOk(JsonText(ServerEntryList(ServerPendingOfType(led, srv, DEBIT))))
  ELSE IF req.method = "DELETE" /\ Len(res) = 2 /\ res[1] = "entries"
    THEN IF CanCancel(led, srv, res[2]) THEN ServerNoContent
         ELSE IF \E i \in EntryOf(led, res[2]) : led[i].committed THEN ServerConflict
         ELSE ServerNotFound
  ELSE IF req.method = "POST" /\ res = <<"commit">>
    THEN IF CanCommit(led, srv, CommitGuids(led, srv, req))
           THEN ServerOk(JsonText(WireBalance("acct-1",
                  ServerBalance(MarkCommitted(led, CommitGuids(led, srv, req)), srv, TRUE),
                  ServerBalance(MarkCommitted(led, CommitGuids(led, srv, req)), srv, FALSE))))
         ELSE ServerConflict
  ELSE ServerNotFound
ServerAnswer(led, srv, req) == ServerAnswerAt(led, srv, req, Resource(req))

\* The account's entries after the request.
ServerLedgerAt(led, srv, req, res) ==
  IF ~srv.exists THEN led
  ELSE IF req.method = "PUT" /\ res \in {<<"credits">>, <<"debits">>}
    THEN ServerCreate(led, CreatedType(res), req, Len(led) + 1)
  ELSE IF req.method = "POST" /\ res = <<"commit">>
          /\ CanCommit(led, srv, CommitGuids(led, srv, req))
    THEN ServerCommit(led, srv, CommitGuids(led, srv, req))
  ELSE led
\* The account after the request.
ServerAccountAt(led, srv, req, res) ==
  IF ~srv.exists THEN srv
  ELSE IF req.method = "DELETE" /\ res = <<>> THEN [srv EXCEPT !.exists = FALSE]
  ELSE IF req.method = "DELETE" /\ Len(res) = 2 /\ res[1] = "entries"
          /\ CanCancel(led, srv, res[2])
    THEN [srv EXCEPT !.cancelled = @ \cup {res[2]}]
  ELSE srv

\* The server handles the request req: its answer reaches the caller through r.
ServerStep(req) ==
  /\ ledger' = ServerLedgerAt(ledger, server, req, Resource(req))
  /\ server' = ServerAccountAt(ledger, server, req, Resource(req))
\* The request of a call, taken from the call's outcome.
RequestOf(r) == r.sent[1]

\* The harness's entry tests on its test account.
CreditsAndDebits(led) == Cardinality({i \in 1..Len(led) : led[i].type # BALANCE})
Recorded(type) ==
  IF outcome'.kind = "return" THEN Append(test_entry_guids, [guid |-> outcome'.value, type |-> type])
  ELSE test_entry_guids

AcctAddCredit ==
  /\ CreditsAndDebits(ledger) < MaxEntries
  /\ \E n \in {ServerAnswer(ledger, server, RequestOf(add_credit("acct-1", 1, None, NetTimeout)))} :
       Call("add_credit", [account_guid |-> "acct-1", amount |-> 1, description |-> None], n,
            add_credit("acct-1", 1, None, n))
  /\ ServerStep(sent'[1])
  /\ test_entry_guids' = Recorded(CREDIT)
  /\ UNCHANGED <<paging, test_account, client, callers, block>>

AcctAddDebit ==
  /\ CreditsAndDebits(ledger) < MaxEntries
  /\ \E n \in {ServerAnswer(ledger, server, RequestOf(add_debit("acct-1", 1, None, NetTimeout)))} :
       Call("add_debit", [account_guid |-> "acct-1", amount |-> 1, description |-> None], n,
            add_debit("acct-1", 1, None, n))
  /\ ServerStep(sent'[1])
  /\ test_entry_guids' = Recorded(DEBIT)
  /\ UNCHANGED <<paging, test_account, client, callers, block>>

AcctGetAll ==
  /\ \E n \in {ServerAnswer(ledger, server, RequestOf(entry_get_all("acct-1", NetTimeout)))} :
       Call("get_all", [account_guid |-> "acct-1"], n, entry_get_all("acct-1", n))
  /\ ServerStep(sent'[1])
  /\ UNCHANGED <<paging, test_entry_guids, test_account, client, callers, block>>

AcctGetPending ==
  /\ \E n \in {ServerAnswer(ledger, server, RequestOf(get_pending("acct-1", NetTimeout)))} :
       Call("get_pending", [account_guid |-> "acct-1"], n, get_pending("acct-1", n))
  /\ ServerStep(sent'[1])
  /\ UNCHANGED <<paging, test_entry_guids, test_account, client, callers, block>>

AcctGetPendingCredits ==
  /\ \E n \in {ServerAnswer(ledger, server,
                            RequestOf(get_pending_credits("acct-1", NetTimeout)))} :
       Call("get_pending_credits", [account_guid |-> "acct-1"], n,
            get_pending_credits("acct-1", n))
  /\ ServerStep(sent'[1])
  /\ UNCHANGED <<paging, test_entry_guids, test_account, client, callers, block>>

AcctGetPendingDebits ==
  /\ \E n \in {ServerAnswer(ledger, server,
                            RequestOf(get_pending_debits("acct-1", NetTimeout)))} :
       Call("get_pending_debits", [account_guid |-> "acct-1"], n,
            get_pending_debits("acct-1", n))
  /\ ServerStep(sent'[1])
  /\ UNCHANGED <<paging, test_entry_guids, test_account, client, callers, block>>

\* entry.cancel of an entry the account has, had, or never had.
AcctCancel ==
  /\ \E i \in 1..(MaxEntries + 1) :
       \E n \in {ServerAnswer(ledger, server,
                              RequestOf(entry_cancel("acct-1", ServerEntryGuid(i), NetTimeout)))} :
         Call("cancel", [account_guid |-> "acct-1", entry_guid |-> ServerEntryGuid(i)], n,
              entry_cancel("acct-1", ServerEntryGuid(i), n))
  /\ ServerStep(sent'[1])
  /\ UNCHANGED <<paging, test_entry_guids, test_account, client, callers, block>>

\* balance.commit of all pending entries, or of one entry the caller created.
CommitLists ==
  {None} \cup {Some(<<test_entry_guids[k].guid>>) : k \in 1..Len(test_entry_guids)}
AcctCommit ==
  /\ ServerPending(ledger, server) # <<>>
  /\ \E gs \in CommitLists :
       \E n \in {ServerAnswer(ledger, server,
                              RequestOf(balance_commit("acct-1", gs, NetTimeout)))} :
         Call("balance.commit", [account_guid |-> "acct-1", entry_guids |-> gs], n,
              balance_commit("acct-1", gs, n))
  /\ ServerStep(sent'[1])
  /\ UNCHANGED <<paging, test_entry_guids, test_account, client, callers, block>>

\* What may happen to an existence check other than the server's own answer.
HeadFaults ==
  {NetTimeout, NetFailure}
  \cup {NetResponse(s, "Error", JsonText(JObject([message |-> "m"])), None) : s \in {401, 409, 500}}

AcctExists ==
  /\ \E n \in {ServerAnswer(ledger, server, RequestOf(account_exists("acct-1", NetTimeout)))}
               \cup HeadFaults :
       Call("account.exists", [account_guid |-> "acct-1"], n, account_exists("acct-1", n))
  /\ UNCHANGED <<ledger, paging, server, test_entry_guids, test_account, client, callers, block>>

AcctDelete ==
  /\ \E n \in {ServerAnswer(ledger, server, RequestOf(account_delete("acct-1", NetTimeout)))} :
       Call("account.delete", [account_guid |-> "acct-1"], n, account_delete("acct-1", n))
  /\ ServerStep(sent'[1])
  /\ UNCHANGED <<paging, test_entry_guids, test_account, client, callers, block>>

NextAccount ==
  \/ AcctAddCredit
  \/ AcctAddDebit
  \/ AcctGetAll
  \/ AcctGetPending
  \/ AcctGetPendingCredits
  \/ AcctGetPendingDebits
  \/ AcctCancel
  \/ AcctCommit
  \/ AcctExists
  \/ AcctDelete

\* The harness's test account right after its creation: no entries yet.
InitAccount == InitLedger /\ ledger = <<>>

SpecAccount == InitAccount /\ [][NextAccount]_vars

\* ------------------------------------------------------ the account directory
\* The server's side of the accounts, for one account: PUT /v1/accounts creates
\* it under the name given, GET by guid or by name returns it, DELETE removes it.
NoAccount == [exists |-> FALSE, cancelled |-> {}, name |-> <<>>]

\* The server's decoding of a percent-encoded path segment.
RECURSIVE Unquote(_)
Unquote(s) ==
  IF s = <<>> THEN <<>>
  ELSE IF Len(s) >= 3 /\ SubSeq(s, 1, 3) = <<"%", "2", "0">>
    THEN <<" ">> \o Unquote(SubSeq(s, 4, Len(s)))
  ELSE IF Len(s) >= 3 /\ SubSeq(s, 1, 3) = <<"%", "0", "9">>
    THEN <<"\t">> \o Unquote(SubSeq(s, 4, Len(s)))
  ELSE <<Head(s)>> \o Unquote(Tail(s))

ServerAccountCreated(name) ==
  NetResponse(201, "Created", JsonText(WireAccount("acct-1", name)), Some("rq-1"))

\* The answer to a request on the accounts.
DirectoryAnswer(srv, req) ==
  IF req.method = "PUT" /\ Len(req.path.segs) = 2
    THEN IF srv.exists THEN ServerConflict ELSE ServerAccountCreated(req.body[1].name)
  ELSE IF ~srv.exists THEN ServerNotFound
  ELSE IF req.method = "GET" /\ Len(req.path.segs) = 3
    THEN IF req.path.segs[3] = "acct-1" THEN ServerOk(JsonText(WireAccount("acct-1", srv.name)))
         ELSE ServerNotFound
  ELSE IF req.method = "GET" /\ Len(req.path.segs) = 4 /\ req.path.segs[3] = "byname"
    THEN IF Unquote(req.path.segs[4]) = srv.name
           THEN ServerOk(JsonText(WireAccount("acct-1", srv.name)))
         ELSE ServerNotFound
  ELSE IF req.method = "DELETE" /\ Len(req.path.segs) = 3 /\ req.path.segs[3] = "acct-1"
    THEN ServerNoContent
  ELSE ServerNotFound

\* The account after the request.
DirectoryAfter(srv, req) ==
  IF req.method = "PUT" /\ Len(req.path.segs) = 2 /\ ~srv.exists
    THEN [srv EXCEPT !.exists = TRUE, !.name = req.body[1].name]
  ELSE IF req.method = "DELETE" /\ Len(req.path.segs) = 3 /\ req.path.segs[3] = "acct-1"
          /\ srv.exists
    THEN NoAccount
  ELSE srv

\* The answer to the call whose outcome under some answer is r: a call that
\* sends nothing gets none.
DirectoryServed(r) == IF r.sent = <<>> THEN NoNet ELSE DirectoryAnswer(server, r.sent[1])
DirectoryStep == server' = IF sent' = <<>> THEN server ELSE DirectoryAfter(server, sent'[1])

\* The harness's account tests: create, get, get by name, delete.
DirCreate ==
  /\ ~server.exists
  /\ \E nm \in Names, nt \in Descriptions :
       \E n \in {DirectoryServed(account_create(nm, nt, NetTimeout))} :
         Call("account.create", [name |-> nm, notes |-> nt], n, account_create(nm, nt, n))
  /\ DirectoryStep
  /\ test_account' = IF outcome'.kind = "return"
                       THEN Some([guid |-> outcome'.value.guid, name |-> args'.name])
                     ELSE test_account
  /\ UNCHANGED <<ledger, paging, test_entry_guids, client, callers, block>>

DirGet ==
  /\ \E g \in {"acct-1", "acct-2"} :
       \E n \in {DirectoryServed(account_get(g, NetTimeout))} :
         Call("account.get", [account_guid |-> g], n, account_get(g, n))
  /\ DirectoryStep
  /\ UNCHANGED <<ledger, paging, test_entry_guids, test_account, client, callers, block>>

DirGetByName ==
  /\ \E nm \in Names :
       \E n \in {DirectoryServed(account_get_by_name(nm, NetTimeout))} :
         Call("account.get_by_name", [name |-> nm], n, account_get_by_name(nm, n))
  /\ DirectoryStep
  /\ UNCHANGED <<ledger, paging, test_entry_guids, test_account, client, callers, block>>

DirDelete ==
  /\ \E n \in {DirectoryServed(account_delete("acct-1", NetTimeout))} :
       Call("account.delete", [account_guid |-> "acct-1"], n, account_delete("acct-1", n))
  /\ DirectoryStep
  /\ test_account' = IF outcome'.kind = "return" THEN None ELSE test_account
  /\ UNCHANGED <<ledger, paging, test_entry_guids, client, callers, block>>

InitDirectory ==
  /\ op = "none"
  /\ args = EmptyDict
  /\ net = NoNet
  /\ sent = <<>>
  /\ reply = NoReply
  /\ outcome = [kind |-> "none"]
  /\ ledger = <<>>
  /\ paging = NoPaging
  /\ server = NoAccount
  /\ test_entry_guids = <<>>
  /\ test_account = None
  /\ client = TheClient
  /\ callers = NoCallers
  /\ block = NoBlock

NextDirectory ==
  \/ DirCreate
  \/ DirGet
  \/ DirGetByName
  \/ DirDelete

SpecDirectory == InitDirectory /\ [][NextDirectory]_vars

\* ------------------------------------------------- callers sharing one client
\* Several callers issue operations on one client while its owner may wrap it in
\* a `with` statement and close it.  A call goes through three steps, between
\* which the other callers run: the request is built from the client's fields
\* and handed to the session, the answer arrives, the operation decodes it.
BaseUrls == {<<"h">>, <<"h", "/">>}
ApiKeys == {<<"k">>}
Timeouts == {30}
ClientArgs ==
  [base_url : BaseUrls, api_key : ApiKeys, timeout_seconds : Timeouts]

SharedOps == {"account.get", "account.exists", "account.delete"}
CallerNets ==
  FewNets \cup {NetResponse(200, "OK", JsonText(WireAccount("acct-1", <<"a">>)), None)}

\* The operation a caller runs, applied to its argument and to the answer n.
Operation(o, account_guid, n) ==
  CASE o = "account.get" -> account_get(account_guid, n)
    [] o = "account.exists" -> account_exists(account_guid, n)
    [] o = "account.delete" -> account_delete(account_guid, n)

\* The request the operation issues (it does not depend on the answer).
RequestOfOperation(o, account_guid) == Operation(o, account_guid, NetTimeout).sent[1]

\* No caller is inside a call.
Quiescent == \A c \in Callers : callers[c].pc \in {"idle", "done"}

CallerSend(c) ==
  /\ callers[c].pc = "idle"
  /\ client.session = "open"
  /\ \E o \in SharedOps, g \in AccountGuids :
       /\ callers' = [callers EXCEPT ![c] =
            [pc |-> "sent", op |-> o, account_guid |-> g,
             wire |-> SessionRequest(client, RequestOfOperation(o, g))]]
       /\ client' = RequestFields(client, RequestOfOperation(o, g))
  /\ UNCHANGED <<op, args, net, sent, reply, outcome, ledger, paging, server,
                 test_entry_guids, test_account, block>>

CallerReceive(c) ==
  /\ callers[c].pc = "sent"
  /\ \E n \in CallerNets :
       callers' = [callers EXCEPT ![c] =
         [pc |-> "received", op |-> @.op, account_guid |-> @.account_guid,
          wire |-> @.wire, response |-> n]]
  /\ UNCHANGED <<op, args, net, sent, reply, outcome, ledger, paging, server,
                 test_entry_guids, test_account, client, block>>

CallerReturn(c) ==
  /\ callers[c].pc = "received"
  /\ callers' = [callers EXCEPT ![c] =
       [pc |-> "done", op |-> @.op, account_guid |-> @.account_guid,
        wire |-> @.wire, response |-> @.response,
        result |-> Operation(@.op, @.account_guid, @.response).out]]
  /\ UNCHANGED <<op, args, net, sent, reply, outcome, ledger, paging, server,
                 test_entry_guids, test_account, client, block>>

CallerNext(c) ==
  /\ callers[c].pc = "done"
  /\ callers' = [callers EXCEPT ![c] = IdleCaller]
  /\ UNCHANGED <<op, args, net, sent, reply, outcome, ledger, paging, server,
                 test_entry_guids, test_account, client, block>>

\* `with client:` is entered.
WithEnter ==
  /\ block.pc = "outside"
  /\ NetLedgerClientEnter(client).kind = "return"
  /\ block' = [block EXCEPT !.pc = "inside"]
  /\ UNCHANGED <<op, args, net, sent, reply, outcome, ledger, paging, server,
                 test_entry_guids, test_account, client, callers>>

\* The body of the `with` statement raises.
WithRaises ==
  /\ block.pc = "inside"
  /\ Quiescent
  /\ block' = [block EXCEPT !.pc = "raising", !.exc = Some(ValueError("raised in the block"))]
  /\ UNCHANGED <<op, args, net, sent, reply, outcome, ledger, paging, server,
                 test_entry_guids, test_account, client, callers>>

\* The `with` statement is left, normally or by the body's exception.
WithExit ==
  /\ block.pc \in {"inside", "raising"}
  /\ Quiescent
  /\ \E r \in {NetLedgerClientExit(client, block.exc)} :
       /\ client' = r.client
       /\ block' = [block EXCEPT !.pc = "left", !.closes = @ + 1, !.out = r.out]
  /\ UNCHANGED <<op, args, net, sent, reply, outcome, ledger, paging, server,
                 test_entry_guids, test_account, callers>>

\* An explicit client.close(), before, inside or after the `with` statement.
Close ==
  /\ block.pc # "raising"
  /\ block.closes < MaxCloses
  /\ Quiescent
  /\ \E r \in {NetLedgerClientClose(client)} :
       /\ client' = r.client
       /\ block' = [block EXCEPT !.closes = @ + 1, !.out = r.out]
  /\ UNCHANGED <<op, args, net, sent, reply, outcome, ledger, paging, server,
                 test_entry_guids, test_account, callers>>

InitClient ==
  /\ op = "NetLedgerClient"
  /\ args \in ClientArgs
  /\ client = NetLedgerClientInit(args.base_url, args.api_key, args.timeout_seconds).v
  /\ callers = NoCallers
  /\ block = NoBlock
  /\ net = NoNet
  /\ sent = <<>>
  /\ reply = NoReply
  /\ outcome = [kind |-> "none"]
  /\ ledger = <<>>
  /\ paging = NoPaging
  /\ server = NewAccount
  /\ test_entry_guids = <<>>
  /\ test_account = None

NextClient ==
  \/ \E c \in Callers : CallerSend(c)
  \/ \E c \in Callers : CallerReceive(c)
  \/ \E c \in Callers : CallerReturn(c)
  \/ \E c \in Callers : CallerNext(c)
  \/ WithEnter
  \/ WithRaises
  \/ WithExit
  \/ Close

SpecClient == InitClient /\ [][NextClient]_vars

\* ================================================================== claims
\* The answer was a response with a status outside [200,300).
ErrorAnswered == net.kind = "response" /\ ~Is2xx(net.status)
\* The request never got an answer.
Unanswered == net.kind \in {"timeout", "connfail"}
WhitespaceOnly(name) == \A i \in 1..Len(name) : name[i] \in Whitespace

\* C1: add_credit / add_debit with amount <= 0, and account.create,
\* account.get_by_name, api_key.create with an empty or whitespace-only name,
\* fail with ValidationError naming the parameter ('amount' / 'name'), and the
\* call issues no HTTP request.
C1_ValidationBeforeNetwork ==
  /\ (op \in {"add_credit", "add_debit"} /\ args.amount <= 0)
       => /\ outcome.kind = "ValidationError"
          /\ outcome.parameter_name = "amount"
          /\ sent = <<>>
  /\ (op \in {"account.create", "account.get_by_name", "api_key.create"}
        /\ WhitespaceOnly(args.name))
       => /\ outcome.kind = "ValidationError"
          /\ outcome.parameter_name = "name"
          /\ sent = <<>>

C1_Witness ==
  /\ op = "add_credit"
  /\ args.amount = 0
  /\ outcome.kind = "ValidationError"
  /\ sent = <<>>

\* C2: add_credits / add_debits fail with ValidationError and issue no request
\* when the list is empty or any element has amount <= 0; a batch is sent only
\* when every amount is > 0, and then it is the whole batch.
C2_BatchValidation ==
  op \in {"add_credits", "add_debits"} =>
    /\ (args.entries = <<>> \/ \E i \in 1..Len(args.entries) : args.entries[i].amount <= 0)
         => outcome.kind = "ValidationError" /\ sent = <<>>
    /\ sent # <<>>
         => /\ \A i \in 1..Len(args.entries) : args.entries[i].amount > 0
            /\ Len(sent) = 1
            /\ Len(sent[1].body[1].Entries) = Len(args.entries)
            /\ \A i \in 1..Len(args.entries) :
                 sent[1].body[1].Entries[i].Amount = args.entries[i].amount

C2_Witness ==
  /\ op = "add_credits"
  /\ Len(args.entries) = 2
  /\ args.entries[1].amount > 0
  /\ args.entries[2].amount <= 0
  /\ outcome.kind = "ValidationError"
  /\ sent = <<>>

\* C3: for GET, PUT, POST and DELETE, every response with a status outside
\* [200,300) makes the transport call fail with ApiError carrying that status,
\* whatever the body is.
C3_NonSuccessIsApiError ==
  (sent # <<>> /\ sent[1].method \in {"GET", "PUT", "POST", "DELETE"} /\ ErrorAnswered)
    => reply.kind = "ApiError" /\ reply.status_code = net.status

\* C4: a call issues at most one HTTP request; after a timeout, a connection
\* failure or a non-2xx answer the entry-creating operations fail having sent
\* their request exactly once.
C4_AtMostOneRequest ==
  /\ Len(sent) <= 1
  /\ (op \in {"add_credit", "add_debit", "add_credits", "add_debits"}
        /\ (Unanswered \/ ErrorAnswered))
       => outcome.kind # "return" /\ Len(sent) = 1

C4_Witness ==
  /\ op = "add_credit"
  /\ net.kind = "timeout"
  /\ Len(sent) = 1
  /\ outcome.kind = "ConnectionError"

\* C5: balance.verify returns true on 200, false on 409, raises ApiError with
\* the server's status on every other non-2xx answer, and raises
\* ConnectionError on a timeout or connection failure.
C5_VerifyContract ==
  op = "balance.verify" =>
    /\ (net.kind = "response" /\ net.status = 200) => outcome = Return(TRUE)
    /\ (net.kind = "response" /\ net.status = 409) => outcome = Return(FALSE)
    /\ (ErrorAnswered /\ net.status # 409)
         => outcome.kind = "ApiError" /\ outcome.status_code = net.status
    /\ Unanswered => outcome.kind = "ConnectionError"

\* C6: every operation other than account.exists, health_check and
\* balance.verify surfaces a non-2xx answer as ApiError with that status and
\* never returns normally (entry.cancel: 404 and 409 included).
C6_ErrorsSurface ==
  (op \notin {"none", "account.exists", "health_check", "balance.verify"} /\ ErrorAnswered)
    => outcome.kind = "ApiError" /\ outcome.status_code = net.status

\* C8: every EnumerationResult returned by account.enumerate, entry.enumerate
\* or api_key.enumerate has end_of_results true iff records_remaining = 0.
C8_EndIffNoneRemaining ==
  (op \in {"enumerate", "account.enumerate", "api_key.enumerate"} /\ outcome.kind = "return")
    => (outcome.value.end_of_results <=> outcome.value.records_remaining = 0)

\* The query and the payload of an entry.enumerate call that sent a request.
SentQuery == IF args.query = None THEN DefaultEntryEnumerationQuery ELSE args.query[1]
SentPayload == sent[1].body[1]
\* The optional field f, set according to IsSet, is in the payload under its
\* wire name k with the identical value, and an unset one is absent.
Echoed(f, k, IsSet(_)) ==
  /\ IsSet(SentQuery[f]) <=> k \in DOMAIN SentPayload
  /\ IsSet(SentQuery[f]) => SentPayload[k] = SentQuery[f][1]
NotNone(x) == x # None

\* C9 as stated: every optional field that is not None is in the payload with
\* the identical value, every field that is None is absent, and MaxResults and
\* Ordering equal the query's values.
C9_LosslessNotNone ==
  (op = "enumerate" /\ sent # <<>>) =>
    /\ SentPayload.MaxResults = SentQuery.max_results
    /\ SentPayload.Ordering = SentQuery.ordering
    /\ Echoed("continuation_token", "ContinuationToken", NotNone)
    /\ Echoed("created_after_utc", "CreatedAfterUtc", NotNone)
    /\ Echoed("created_before_utc", "CreatedBeforeUtc", NotNone)
    /\ Echoed("amount_min", "AmountMinimum", NotNone)
    /\ Echoed("amount_max", "AmountMaximum", NotNone)

\* C9 (amended): a continuation token or timestamp that is a non-empty string,
\* and an amount bound that is not None (0 included), is in the payload under
\* its wire name with the identical value; a None or empty-string token or
\* timestamp and a None bound are absent; MaxResults and Ordering equal the
\* query's values.
C9_LosslessWhenSet ==
  (op = "enumerate" /\ sent # <<>>) =>
    /\ SentPayload.MaxResults = SentQuery.max_results
    /\ SentPayload.Ordering = SentQuery.ordering
    /\ Echoed("continuation_token", "ContinuationToken", TruthyStr)
    /\ Echoed("created_after_utc", "CreatedAfterUtc", TruthyStr)
    /\ Echoed("created_before_utc", "CreatedBeforeUtc", TruthyStr)
    /\ Echoed("amount_min", "AmountMinimum", NotNone)
    /\ Echoed("amount_max", "AmountMaximum", NotNone)

C9_Witness ==
  /\ op = "enumerate"
  /\ args.query # None
  /\ args.query[1].continuation_token = Some("tok")
  /\ args.query[1].amount_min = Some(0)
  /\ args.query[1].created_before_utc = None
  /\ sent # <<>>
  /\ SentPayload.ContinuationToken = "tok"
  /\ SentPayload.AmountMinimum = 0

\* ------------------------------------------------- paging (SpecLedger)
\* The entries of a decoded page, and of all pages fetched so far, in order.
PageItems(p) == IF p.objects = None THEN <<>> ELSE p.objects[1]
RECURSIVE Flatten(_)
Flatten(ps) ==
  IF ps = <<>> THEN <<>>
  ELSE Flatten(SubSeq(ps, 1, Len(ps) - 1)) \o PageItems(ps[Len(ps)])
Delivered(ps, i) == Len(Flatten(SubSeq(ps, 1, i)))

\* The server's entries the query selects.
InQuery(q, e) ==
  /\ q.amount_min # None => q.amount_min[1] <= e.amount
  /\ q.amount_max # None => e.amount <= q.amount_max[1]
Selected(q) == {i \in 1..Len(ledger) : InQuery(q, ledger[i])}

PagingInvariant(ps, items, total) ==
  /\ \A i \in 1..Len(ps) :
       /\ ps[i].total_records = total
       /\ ps[i].records_remaining = total - Delivered(ps, i)
       /\ ps[i].end_of_results <=> ps[i].records_remaining = 0
  /\ \A i \in 1..(Len(ps) - 1) :
       /\ ps[i + 1].records_remaining < ps[i].records_remaining
       /\ ~ps[i].end_of_results
  /\ \A i, j \in 1..Len(items) : i # j => items[i].guid # items[j].guid
  /\ \A i \in 1..Len(items) :
       \E k \in Selected(paging.query) : ledger[k].guid = items[i].guid
  /\ ps[Len(ps)].end_of_results => Len(items) = total
  /\ ~ps[Len(ps)].end_of_results => TruthyStr(ps[Len(ps)].continuation_token)

\* C7: the pages of one query over a fixed set of entries, each fetched with
\* the previous page's continuation token: total_records is the number of
\* selected entries on every page, records_remaining is what has not been
\* delivered yet, strictly decreases and is 0 exactly on the page with
\* end_of_results, no earlier page is the end, no entry is delivered twice,
\* every delivered entry is a selected one, and at the end exactly
\* total_records entries have been delivered.
C7_PaginationInvariant ==
  paging.active =>
    PagingInvariant(paging.pages, Flatten(paging.pages), Cardinality(Selected(paging.query)))

\* The harness's run: 15 entries, max_results = 5, three pages, 10 / 5 / 0.
C7_Witness ==
  /\ ledger = HarnessLedger
  /\ paging.active
  /\ paging.query.max_results = HarnessPageSize
  /\ Len(paging.pages) = 3
  /\ paging.pages[1].records_remaining = 10
  /\ paging.pages[2].records_remaining = 5
  /\ paging.pages[3].records_remaining = 0
  /\ paging.pages[3].end_of_results
  /\ Len(Flatten(paging.pages)) = 15
  /\ sent[1].body[1].ContinuationToken = paging.pages[2].continuation_token[1]

InOrder(ordering, a, b) ==
  IF ordering = CREATED_ASCENDING THEN a.created_utc[1] <= b.created_utc[1]
  ELSE IF ordering = CREATED_DESCENDING THEN a.created_utc[1] >= b.created_utc[1]
  ELSE IF ordering = AMOUNT_ASCENDING THEN a.amount <= b.amount
  ELSE a.amount >= b.amount

Ordered(ordering, items) ==
  \A k \in 1..(Len(items) - 1) : InOrder(ordering, items[k], items[k + 1])

\* C10: the entries of all pages of one query, concatenated in the order they
\* were fetched, have non-decreasing / non-increasing created timestamps under
\* CREATED_ASCENDING / CREATED_DESCENDING and non-decreasing / non-increasing
\* amounts under AMOUNT_ASCENDING / AMOUNT_DESCENDING.
C10_OrderingInvariant ==
  paging.active => Ordered(paging.query.ordering, Flatten(paging.pages))

\* The harness's run: amounts ascending over three pages, 5.00 first, 100.00 last.
C10_Witness ==
  /\ ledger = HarnessLedger
  /\ paging.active
  /\ paging.query.ordering = AMOUNT_ASCENDING
  /\ paging.query.max_results = HarnessPageSize
  /\ Len(paging.pages) = 3
  /\ PageItems(paging.pages[1])[1].amount = 5
  /\ PageItems(paging.pages[3])[HarnessPageSize].amount = 100
  /\ paging.pages[3].end_of_results

\* ------------------------------------------------ amount filter (SpecLedger)
\* C11: on every page of a query with amount bounds, each decoded entry has
\* amount_min <= amount <= amount_max (for the bounds that are set), and
\* total_records is the number of the account's entries within the bounds,
\* whatever max_results is.
C11_AmountFilterInvariant ==
  paging.active =>
    \A i \in 1..Len(paging.pages) :
      /\ \A k \in 1..Len(PageItems(paging.pages[i])) :
           InQuery(paging.query, PageItems(paging.pages[i])[k])
      /\ paging.pages[i].total_records =
           Cardinality({j \in 1..Len(ledger) : InQuery(paging.query, ledger[j])})

\* The harness's run: 15 entries, bounds [20, 60], three per page: 8 match,
\* 3 are delivered, 5 remain.
C11_Witness ==
  /\ ledger = HarnessLedger
  /\ paging.active
  /\ paging.query.amount_min = Some(20)
  /\ paging.query.amount_max = Some(60)
  /\ paging.query.max_results = HarnessFilterPageSize
  /\ Len(paging.pages) = 1
  /\ paging.pages[1].total_records = 8
  /\ Len(PageItems(paging.pages[1])) = 3
  /\ paging.pages[1].records_remaining = 5
  /\ ~paging.pages[1].end_of_results
  /\ sent[1].body[1].AmountMinimum = 20
  /\ sent[1].body[1].AmountMaximum = 60

\* ------------------------------------------------------ commit's body (Spec)
\* C12: balance.commit sends its POST without a body exactly when no list of
\* entry guids is given, and whenever the caller gives a list it sends the body
\* {EntryGuids: that list}: a commit called with a list never asks the server
\* to commit all pending entries.
C12_CommitBody ==
  (op = "balance.commit" /\ sent # <<>>) =>
    /\ sent[1].body = None <=> args.entry_guids = None
    /\ args.entry_guids # None
         => sent[1].body = Some([EntryGuids |-> args.entry_guids[1]])

\* ------------------------------------------------------- HEAD callers (Spec)
\* C14: service.health_check never raises: it issues one HEAD on the root path
\* and returns true iff the answer's status is in [200,300); it returns false
\* for every other status, for a timeout and for every connection failure.
C14_HealthCheckNeverRaises ==
  op = "health_check" =>
    /\ sent = <<HttpRequest("HEAD", Path(<<>>), None)>>
    /\ outcome.kind = "return"
    /\ outcome.value = (net.kind = "response" /\ Is2xx(net.status))

C14_Witness ==
  /\ op = "health_check"
  /\ net.kind = "connfail"
  /\ outcome = Return(FALSE)

\* C16: with every verb, a request that times out fails with ConnectionError
\* 'Request timed out', and one that meets any other connection failure fails
\* with ConnectionError carrying the underlying cause; every operation except
\* health_check then raises that error and returns nothing.
C16_TransportFailure ==
  (sent # <<>> /\ Unanswered) =>
    /\ sent[1].method \in {"GET", "PUT", "POST", "DELETE", "HEAD"}
    /\ reply.kind = "ConnectionError"
    /\ net.kind = "timeout" => reply.message = "Request timed out"
    /\ net.kind = "connfail" => reply.cause # None
    /\ op # "health_check" => outcome = reply

C16_Witness ==
  /\ op = "account.exists"
  /\ sent[1].method = "HEAD"
  /\ net.kind = "timeout"
  /\ outcome.kind = "ConnectionError"
  /\ outcome.message = "Request timed out"

\* --------------------------------------------------- entry types (Spec)
\* A pending-entries call was answered 2xx with a list of entry objects that
\* all carry a Type.
PendingAnswered ==
  /\ op \in {"get_pending", "get_pending_credits", "get_pending_debits"}
  /\ net.kind = "response"
  /\ Is2xx(net.status)
  /\ net.text.kind = "json"
  /\ net.text.json.t = "array"
  /\ \A i \in 1..Len(net.text.json.a) :
       net.text.json.a[i].t = "object" /\ "Type" \in DOMAIN net.text.json.a[i].o
WireTypeAt(i) == net.text.json.a[i].o.Type
\* The variant the wire forms stand for: the code itself, or the name's variant
\* with Credit for any other name.
VariantOf(raw) ==
  IF raw.t = "number" THEN raw.n
  ELSE IF raw.s = "Debit" THEN DEBIT
  ELSE IF raw.s = "Balance" THEN BALANCE
  ELSE CREDIT
\* The entries were decoded, one per wire entry, each to the variant of its Type.
DecodedToVariants ==
  /\ outcome.kind = "return"
  /\ Len(outcome.value) = Len(net.text.json.a)
  /\ \A i \in 1..Len(net.text.json.a) :
       /\ outcome.value[i].type \in EntryTypeValues
       /\ outcome.value[i].type = VariantOf(WireTypeAt(i))

\* C17 as stated: decoding an entry's Type always yields one of the three
\* variants: code 0 or 'Credit' gives Credit, 1 or 'Debit' Debit, 2 or
\* 'Balance' Balance, and any unrecognized string gives Credit.
C17_AlwaysAVariant == PendingAnswered => DecodedToVariants

\* C17 (amended): when every Type is a string or one of the codes 0, 1, 2,
\* each entry decodes to the variant of its Type, the numeric and the string
\* form of a type to the same variant and any other string to Credit.
C17_VariantOfEitherForm ==
  (PendingAnswered
     /\ \A i \in 1..Len(net.text.json.a) :
          WireTypeAt(i).t = "string" \/ WireTypeAt(i).n \in EntryTypeValues)
    => DecodedToVariants

C17_Witness ==
  /\ op = "get_pending"
  /\ PendingAnswered
  /\ Len(net.text.json.a) = 1
  /\ WireTypeAt(1) = JString("credit")
  /\ outcome.kind = "return"
  /\ outcome.value[1].type = CREDIT

\* ------------------------------------------------- created guids (Spec)
\* An entry-creating call with valid input was answered 2xx.
Accepted(ops) == op \in ops /\ sent # <<>> /\ net.kind = "response" /\ Is2xx(net.status)
\* The 2xx answer has no body, no EntryGuids field, or an empty EntryGuids list.
NoGuidsAnswered ==
  \/ net.text.kind \in {"empty", "blank"}
  \/ /\ net.text.kind = "json"
     /\ net.text.json.t = "object"
     /\ Falsy(Get(net.text.json.o, "EntryGuids", JArray(<<>>)))
\* The 2xx answer is an object with a non-empty EntryGuids list.
GuidsAnswered ==
  /\ net.text.kind = "json"
  /\ net.text.json.t = "object"
  /\ "EntryGuids" \in DOMAIN net.text.json.o
  /\ net.text.json.o.EntryGuids.t = "array"
  /\ net.text.json.o.EntryGuids.a # <<>>

\* C18: with a valid amount, add_credit and add_debit return the first element
\* of the EntryGuids list of the 2xx answer; without a body, without the field
\* or with an empty list they fail with an error that is not ApiError,
\* ValidationError or ConnectionError; they never return an empty guid.
C18_FirstGuidOrError ==
  Accepted({"add_credit", "add_debit"}) =>
    /\ GuidsAnswered => outcome = Return(net.text.json.o.EntryGuids.a[1])
    /\ NoGuidsAnswered
         => outcome.kind \notin {"return", "ApiError", "ValidationError", "ConnectionError"}
    /\ outcome.kind = "return" => outcome.value # ""

\* C19: with a valid batch, add_credits and add_debits return exactly the
\* EntryGuids list of the 2xx answer, in its order, and an empty list without
\* raising when the answer has no body or no EntryGuids field; for a batch of
\* n inputs that the server accepted, the returned list has n guids.
C19_BatchGuids ==
  Accepted({"add_credits", "add_debits"}) =>
    /\ GuidsAnswered => outcome = Return(net.text.json.o.EntryGuids.a)
    /\ (\/ net.text.kind \in {"empty", "blank"}
        \/ /\ net.text.kind = "json"
           /\ net.text.json.t = "object"
           /\ "EntryGuids" \notin DOMAIN net.text.json.o)
         => outcome = Return(<<>>)
    /\ net = ServerCreatedBatch(Len(args.entries))
         => outcome.kind = "return" /\ Len(outcome.value) = Len(args.entries)

C19_Witness ==
  /\ op = "add_credits"
  /\ Len(args.entries) = 2
  /\ net = ServerCreatedBatch(2)
  /\ outcome = Return(<<ServerEntryGuid(1), ServerEntryGuid(2)>>)

\* ------------------------------------------------------ empty answers (Spec)
\* The call was answered 2xx with an empty (or whitespace-only) body.
EmptyAnswered ==
  net.kind = "response" /\ Is2xx(net.status) /\ net.text.kind \in {"empty", "blank"}

\* C20: for a 2xx answer with an empty body, account.enumerate, entry.enumerate
\* and api_key.enumerate return the empty result (total_records 0,
\* records_remaining 0, end_of_results true, no continuation token, no
\* objects) and get_pending, get_pending_credits and get_pending_debits return
\* an empty sequence; enumerating an account without entries gives
\* total_records 0, records_remaining 0, end_of_results true and zero objects.
C20_EmptyResults ==
  /\ (op \in {"account.enumerate", "enumerate", "api_key.enumerate"} /\ EmptyAnswered)
       => outcome = Return([total_records |-> 0, records_remaining |-> 0,
                            end_of_results |-> TRUE, continuation_token |-> None,
                            objects |-> None])
  /\ (op \in {"get_pending", "get_pending_credits", "get_pending_debits"} /\ EmptyAnswered)
       => outcome = Return(<<>>)
  /\ (op = "enumerate" /\ net = ServerPage(<<>>, 0, 0))
       => /\ outcome.kind = "return"
          /\ outcome.value.total_records = 0
          /\ outcome.value.records_remaining = 0
          /\ outcome.value.end_of_results
          /\ PageItems(outcome.value) = <<>>

C20_Witness ==
  /\ op = "account.enumerate"
  /\ net.kind = "response"
  /\ net.status = 204
  /\ net.text = EmptyText
  /\ outcome.kind = "return"
  /\ outcome.value.total_records = 0
  /\ outcome.value.end_of_results
  /\ outcome.value.objects = None

\* C20's empty account: the server's page for an account that has no entries.
C20_WitnessEmptyAccount ==
  /\ op = "enumerate"
  /\ net = ServerPage(<<>>, 0, 0)
  /\ outcome.kind = "return"
  /\ outcome.value.total_records = 0

\* ------------------------------------------- created entries (SpecAccount)
\* How often guid occurs in a list of decoded entries.
Occurrences(guid, entries) == Cardinality({i \in 1..Len(entries) : entries[i].guid = guid})
\* The created entry has been neither committed nor cancelled.
StillPending(guid) == \E i \in EntryOf(ledger, guid) : IsPending(server, ledger[i])

\* C13: the guid returned by add_credit / add_debit occurs exactly once in
\* each later get_all result, and exactly once in each later get_pending and
\* get_pending_credits / get_pending_debits result of its type, as long as the
\* entry is neither committed nor cancelled; after its cancel or commit it is
\* in no pending result.
C13_CreatedGuidListedOnce ==
  outcome.kind = "return" =>
    \A k \in 1..Len(test_entry_guids) :
      /\ (op = "get_all" /\ StillPending(test_entry_guids[k].guid))
           => Occurrences(test_entry_guids[k].guid, outcome.value) = 1
      /\ op = "get_pending"
           => Occurrences(test_entry_guids[k].guid, outcome.value)
                = IF StillPending(test_entry_guids[k].guid) THEN 1 ELSE 0
      /\ (op = "get_pending_credits" /\ test_entry_guids[k].type = CREDIT)
           => Occurrences(test_entry_guids[k].guid, outcome.value)
                = IF StillPending(test_entry_guids[k].guid) THEN 1 ELSE 0
      /\ (op = "get_pending_debits" /\ test_entry_guids[k].type = DEBIT)
           => Occurrences(test_entry_guids[k].guid, outcome.value)
                = IF StillPending(test_entry_guids[k].guid) THEN 1 ELSE 0

\* Two entries were created, the credit was cancelled: the debit is pending.
C13_Witness ==
  /\ Len(test_entry_guids) = 2
  /\ test_entry_guids[1].type = CREDIT
  /\ test_entry_guids[2].type = DEBIT
  /\ test_entry_guids[1].guid \in server.cancelled
  /\ StillPending(test_entry_guids[2].guid)
  /\ op = "get_pending_debits"
  /\ outcome.kind = "return"
  /\ Len(outcome.value) = 1
  /\ outcome.value[1].guid = test_entry_guids[2].guid

\* C13's other cases: an entry committed by guid is gone from the pending
\* entries, and is still listed, once, by get_all.
C13_WitnessCommitted ==
  /\ Len(test_entry_guids) = 2
  /\ ~StillPending(test_entry_guids[1].guid)
  /\ test_entry_guids[1].guid \notin server.cancelled
  /\ StillPending(test_entry_guids[2].guid)
  /\ op = "get_pending"
  /\ outcome.kind = "return"
  /\ Len(outcome.value) = 1

\* ------------------------------------------- account.exists (SpecAccount)
\* C15: account.exists returns true iff the HEAD answer's status is in
\* [200,300); for every other status it returns false and raises nothing; it
\* raises only when unanswered, and then ConnectionError.  Once the account
\* has been deleted, an answered exists returns false.
C15_ExistsContract ==
  op = "account.exists" =>
    /\ sent[1].method = "HEAD"
    /\ net.kind = "response" => outcome = Return(Is2xx(net.status))
    /\ Unanswered => outcome.kind = "ConnectionError"
    /\ outcome.kind \in {"return", "ConnectionError"}
    /\ (~server.exists /\ net.kind = "response") => outcome = Return(FALSE)

\* The harness's clean-up: the account was deleted, exists answers 404.
C15_Witness ==
  /\ op = "account.exists"
  /\ ~server.exists
  /\ net.kind = "response"
  /\ net.status = 404
  /\ outcome = Return(FALSE)

\* --------------------------------------------------- query invariants (Spec)
\* C21: every enumeration request that is sent carries max_results > 0, and
\* every entry enumeration request that carries both amount bounds has
\* AmountMinimum <= AmountMaximum: a query violating either is never sent.
C21_OnlyValidQueriesSent ==
  /\ (op \in {"account.enumerate", "api_key.enumerate"} /\ sent # <<>>)
       => sent[1].path.query.maxResults > 0
  /\ (op = "enumerate" /\ sent # <<>>)
       => /\ SentPayload.MaxResults > 0
          /\ ({"AmountMinimum", "AmountMaximum"} \subseteq DOMAIN SentPayload
                => SentPayload.AmountMinimum <= SentPayload.AmountMaximum)

\* ---------------------------------------- account round trip (SpecDirectory)
\* account.get on the guid account.create returned, and account.get_by_name on
\* the name given to it, return an Account with that guid and that name, for
\* as long as the account is not deleted.
ReturnsTestAccount ==
  /\ outcome.kind = "return"
  /\ outcome.value.guid = test_account[1].guid
  /\ outcome.value.name = test_account[1].name
GetRoundTrip ==
  /\ (op = "account.get" /\ test_account # None
        /\ args.account_guid = test_account[1].guid) => ReturnsTestAccount
  /\ (op = "account.get_by_name" /\ test_account # None
        /\ args.name = test_account[1].name) => ReturnsTestAccount
CreateReturnsNamed ==
  /\ outcome.kind = "return"
  /\ outcome.value.guid # ""
  /\ outcome.value.name = args.name

\* C22 as stated: for every non-empty name, account.create(name) returns an
\* Account with a non-empty guid and that name, and get / get_by_name return
\* the same guid and name until the account is deleted.
C22_RoundTripNonEmpty ==
  /\ (op = "account.create" /\ args.name # <<>>) => CreateReturnsNamed
  /\ GetRoundTrip

\* C22 (amended): the same for every name that has a character other than
\* whitespace; a whitespace-only name is rejected like an empty one.
C22_RoundTripNonBlank ==
  /\ (op = "account.create" /\ ~WhitespaceOnly(args.name)) => CreateReturnsNamed
  /\ GetRoundTrip

\* A name with a leading blank, created and then fetched by name.
C22_Witness ==
  /\ op = "account.get_by_name"
  /\ test_account # None
  /\ args.name = <<" ", "a">>
  /\ test_account[1].name = <<" ", "a">>
  /\ sent[1].path.segs[4] = <<"%", "2", "0", "a">>
  /\ ReturnsTestAccount

\* ------------------------------------------------------------------- C23
\* The fields a request reads.
Config(cl) ==
  [base_url |-> cl.base_url, api_key |-> cl.api_key, timeout |-> cl.timeout,
   headers |-> cl.headers]
\* The client as its constructor left it.
Constructed == NetLedgerClientInit(args.base_url, args.api_key, args.timeout_seconds).v

\* C23: with several callers running operations on one client in any
\* interleaving, the base URL, the credential, the timeout and the default
\* headers stay as the constructor set them; every request in flight is the one
\* its operation issues alone on the constructed client; and every result is the
\* one the operation gives alone for its own argument and its own answer.
C23_CallersDoNotInterfere ==
  /\ Config(client) = Config(Constructed)
  /\ DOMAIN client = DOMAIN Constructed
  /\ \A c \in Callers :
       /\ callers[c].pc # "idle"
            => callers[c].wire =
                 SessionRequest(Constructed,
                                RequestOfOperation(callers[c].op, callers[c].account_guid))
       /\ callers[c].pc = "done"
            => callers[c].result =
                 Operation(callers[c].op, callers[c].account_guid, callers[c].response).out

\* Two callers overlap: one has its result while the other, which runs another
\* operation and got another answer, is still decoding.
C23_Witness ==
  \E c, d \in Callers :
    /\ callers[c].pc = "done"
    /\ callers[d].pc = "received"
    /\ callers[c].op # callers[d].op
    /\ callers[c].response # callers[d].response
    /\ callers[c].result.kind = "return"

\* ------------------------------------------------------------------- C24
\* C24: once close() was called, explicitly or by leaving the `with` statement,
\* the session is released and stays released through every later close; no
\* close raises (leaving the `with` statement by an exception lets that
\* exception through and nothing else); and a `with` statement that was left has
\* closed the session, also when its body raised.
C24_CloseIsIdempotent ==
  /\ block.closes >= 1 => client.session = "released"
  /\ block.closes >= 1
       => \/ block.out = Return(None)
          \/ block.pc = "left" /\ block.exc # None /\ block.out = block.exc[1]
  /\ block.pc = "left" => client.session = "released"

\* An explicit close inside the `with` statement, then the body raised and the
\* statement was left: the implicit close is the second one.
C24_Witness ==
  /\ block.pc = "left"
  /\ block.exc # None
  /\ block.closes >= 2
  /\ block.out = block.exc[1]

\* ------------------------------------------------------------------- C25
\* The operations that require a value in the answer.
RequiredOps ==
  {"account.create", "account.get", "account.get_by_name", "balance.get",
   "balance.get_as_of", "balance.commit", "api_key.create", "get_info"}
\* A 2xx answer whose body is JSON text.
JsonAnswered == net.kind = "response" /\ Is2xx(net.status) /\ net.text.kind = "json"

\* C25: an operation that requires a value fails with the 'no data returned'
\* error exactly when the answer is 2xx with an empty body, and returns a
\* decoded value for every 2xx answer whose body is JSON.
C25_NoDataIffEmptyBody ==
  (op \in RequiredOps /\ sent # <<>>)
    => /\ outcome = NoDataError <=> EmptyAnswered
       /\ JsonAnswered => outcome.kind = "return"

\* ------------------------------------------------------------------- C26
\* get_info was answered 2xx with service information under PascalCase names.
PascalAnswered ==
  /\ op = "get_info"
  /\ JsonAnswered
  /\ net.text.json.t = "object"
  /\ DOMAIN net.text.json.o # {}
  /\ DOMAIN net.text.json.o \subseteq
       {"Name", "Version", "StartTimeUtc", "UptimeSeconds", "UptimeFormatted"}

\* C26: the ServiceInfo decoded from a PascalCase payload is the one decoded
\* from the payload holding the same values under lowerCamelCase names, for
\* every field and also for an uptime of 0.
C26_SameUnderEitherConvention ==
  PascalAnswered
    => outcome = ReturnOf(ServiceInfoFromDict(JObject(ToCamel(net.text.json.o))))

\* ------------------------------------------------------------------- C27
\* C27: account.delete, entry.cancel and api_key.revoke return normally for
\* every answer with a status in [200,300), whatever its body, and raise
\* ApiError only for an answer with a status outside [200,300).
C27_DeleteIgnoresBody ==
  op \in {"account.delete", "cancel", "api_key.revoke"}
    => /\ (net.kind = "response" /\ Is2xx(net.status)) => outcome = Return(None)
       /\ outcome.kind = "ApiError" => ErrorAnswered

\* ------------------------------------------------------------------- C28
\* get_all was answered 2xx with an envelope.
EnvelopeAnswered ==
  op = "get_all" /\ JsonAnswered /\ net.text.json.t = "object"
\* The envelope's Objects field, or null when the envelope has none.
AnsweredObjects == Get(net.text.json.o, "Objects", PyNone)

\* C28: get_all returns an empty sequence for a 2xx answer with an empty body,
\* with an envelope that has no Objects field, with an envelope whose Objects is
\* null and with one whose Objects is an empty list; otherwise it returns one
\* Entry per element of Objects, in the answer's order.
C28_GetAllEntries ==
  /\ (op = "get_all" /\ EmptyAnswered) => outcome = Return(<<>>)
  /\ (EnvelopeAnswered /\ Falsy(AnsweredObjects)) => outcome = Return(<<>>)
  /\ (EnvelopeAnswered /\ AnsweredObjects.t = "array" /\ AnsweredObjects.a # <<>>)
       => /\ outcome.kind = "return"
          /\ Len(outcome.value) = Len(AnsweredObjects.a)
          /\ \A i \in 1..Len(AnsweredObjects.a) :
               outcome.value[i].guid = AnsweredObjects.a[i].o.GUID

\* ------------------------------------------------------------------- C29
\* The entries of a 2xx answer to an operation that returns entries: the
\* envelope's Objects for get_all and enumerate, the list itself for the
\* pending listings; each entry is an object with a Type field.
AnsweredEntries ==
  IF op \in {"get_all", "enumerate"} THEN net.text.json.o.Objects.a ELSE net.text.json.a
EntriesAnswered ==
  /\ JsonAnswered
  /\ \/ /\ op \in {"get_all", "enumerate"}
        /\ net.text.json.t = "object"
        /\ "Objects" \in DOMAIN net.text.json.o
        /\ net.text.json.o.Objects.t = "array"
     \/ /\ op \in {"get_pending", "get_pending_credits", "get_pending_debits"}
        /\ net.text.json.t = "array"
  /\ \A i \in 1..Len(AnsweredEntries) :
       AnsweredEntries[i].t = "object" /\ "Type" \in DOMAIN AnsweredEntries[i].o
\* The entry's Type is a number that is not one of the three codes.
OutOfRange(e) == e.o.Type.t = "number" /\ e.o.Type.n \notin {CREDIT, DEBIT, BALANCE}

\* C29: when a 2xx answer to get_all, get_pending, get_pending_credits,
\* get_pending_debits or enumerate holds an entry whose Type is a number outside
\* {0, 1, 2}, the operation raises the decoding error and returns nothing:
\* neither that entry as a credit nor the entries before it.
C29_OutOfRangeTypeFails ==
  (EntriesAnswered /\ \E i \in 1..Len(AnsweredEntries) : OutOfRange(AnsweredEntries[i]))
    => outcome = ValueError("not a valid EntryType")

\* The second of two entries has Type 3: the first, a valid debit, is not
\* returned either.
C29_Witness ==
  /\ op \in {"get_all", "enumerate"}
  /\ EntriesAnswered
  /\ Len(AnsweredEntries) = 2
  /\ ~OutOfRange(AnsweredEntries[1])
  /\ OutOfRange(AnsweredEntries[2])
  /\ outcome.kind = "ValueError"

\* ------------------------------------------------------------------- C30
\* balance.get_all was answered 2xx with a guid-to-balance map.
MapAnswered ==
  /\ op = "balance.get_all"
  /\ JsonAnswered
  /\ net.text.json.t = "object"
  /\ \A k \in DOMAIN net.text.json.o : net.text.json.o[k].t = "object"

\* One Balance per key of the answered map.
OneBalancePerKey ==
  /\ outcome.kind = "return"
  /\ Len(outcome.value) = Cardinality(DOMAIN net.text.json.o)
  /\ \A k \in DOMAIN net.text.json.o :
       \E i \in 1..Len(outcome.value) :
         Decoded(outcome.value[i]) = BalanceFromDict(net.text.json.o[k])

\* C30: balance.get_all returns one Balance per key of the answered map (an
\* empty list for an empty body or an empty map), and each returned Balance's
\* account_guid is the key under which its payload was delivered.
C30_BalancePerKey ==
  /\ (op = "balance.get_all" /\ EmptyAnswered) => outcome = Return(<<>>)
  /\ MapAnswered
       => /\ OneBalancePerKey
          /\ \A i \in 1..Len(outcome.value) :
               \E k \in DOMAIN net.text.json.o :
                 /\ Decoded(outcome.value[i]) = BalanceFromDict(net.text.json.o[k])
                 /\ outcome.value[i].account_guid = k

====
